---- MODULE Spec2Model ----
(***************************************************************************)
(* Model of the opensearch-alert rule engine and its coordination layer:   *)
(* the cron driver and Engine.runRule (internal/alert/engine.go), the      *)
(* rule_locks / alert_dedupe / alert_history statements of                 *)
(* internal/database/database.go in both SQL dialects, the message         *)
(* renderer (internal/alert/template.go) and Notifier.SendAlert.           *)
(*                                                                         *)
(* Time is the wall clock in whole seconds, shared by all replicas and the *)
(* state store.  Two events at the same clock value happen within the same *)
(* second.  The SQLite dialect compares timestamps as text; a value bound  *)
(* by the Go driver ("2006-01-02 15:04:05.999999999-07:00") carries a      *)
(* suffix that a value produced by datetime() does not, which is kept in   *)
(* the field sfx.  The process time zone is taken to be UTC.               *)
(***************************************************************************)
EXTENDS Integers, Sequences, FiniteSets, TLC

\* ---------------------------------------------------------------- bounds
MaxAdvances == 3
MaxOutages == 1
MaxExpHours == 1
MaxTests == 1
MaxThreshold == 2

\* calls of ShouldSendAndTouch in one behaviour of the dedup specification
MaxCalls == 3

\* calls of isSuppressed in one behaviour of the status-lock specification
MaxRounds == 3

\* ------------------------------------------------------ program constants
LeaseTTL == 30
DedupeTTL == 120
DefaultDedupeTTL == 120
DedupeColumnDefault == 120
RunInterval == 60
DefaultThreshold == 1
DefaultTimeframe == 300
DefaultMaxRunningRules == 10
RealertMinutes == 5
EvalDeadline == 30
WritebackTimeout == 10

Rep == {"A", "B"}
Evals == {1, 2}
Notifiers == {"email", "dingtalk", "wechat", "feishu"}
RuleTypes == {"frequency", "any", "spike", "flatline", "change", "other"}

ZeroTime == -100000
NullTime == [sec |-> ZeroTime, sfx |-> 0]
QuerySize == 100
NoResp == [total |-> -1, hits |-> -1]
ErrResp == [total |-> -2, hits |-> -2]
NoAlert == [id |-> <<"", ZeroTime>>, rule_name |-> "", level |-> "",
            message |-> <<"", NoResp, ZeroTime>>, count |-> 0, matches |-> 0]
\* a response with t matching documents returns the first QuerySize of them;
\* the totals run up to the threshold of the rule
Responses ==
    {[total |-> t, hits |-> IF t < QuerySize THEN t ELSE QuerySize] :
        t \in 0..DefaultThreshold}
Enabled == {"email", "wechat"}

VARIABLES
    now,        \* wall clock, seconds
    advances,   \* number of clock advances so far
    dbType,     \* Database.dbType: "mysql" or "sqlite"
    cfg,        \* configuration: suppression switch, enabled notifiers
    declared,   \* the rule as declared in its YAML file
    rule,       \* the rule as loaded into the engine (after main's backfill)
    lockRow,    \* the rule_locks row of the rule
    dedupe,     \* alert_dedupe: function key -> last_sent
    history,    \* alert_history: the set of rows
    writeback,  \* documents of the writeback index, by id
    status,     \* Engine.alertStatuses[rule.Name], per replica
    ev,         \* the evaluations (goroutines of runRule)
    started,    \* number of evaluations started
    lastStart,  \* per replica: time of the last cron tick
    tests,      \* number of rows inserted by web test notifications
    probe,      \* trigger-predicate probe: [phase, n, fired]
    replicas,   \* the replicas deployed
    storeUp,    \* the state store is reachable; when it is not, every
                \* statement sent to it fails
    outages,    \* number of outages of the state store so far
    proc        \* per replica: the process is "running", has "stopped" its
                \* engine, or has "exited"

vars == <<now, advances, dbType, cfg, declared, rule, lockRow, dedupe,
          history, writeback, status, ev, started, lastStart, tests, probe,
          replicas, storeUp, outages, proc>>

\* --------------------------------------------------------------- helpers
Min(a, b) == IF a < b THEN a ELSE b

\* getInstanceID: INSTANCE_ID or the hostname; distinct per replica
getInstanceID(r) == r

\* ------------------------------------------------------------ rule loading
\* main: a threshold of 0 and a timeframe of 0 are taken as missing and
\* replaced by the configured defaults
Backfill(d) ==
    [d EXCEPT !.threshold = IF d.threshold = 0 THEN DefaultThreshold ELSE d.threshold,
              !.timeframe = IF d.timeframe = 0 THEN DefaultTimeframe ELSE d.timeframe]

\* ------------------------------------------------------------ trigger query
\* rule.Query is a map: nil when the rule file has no query, else the map of
\* its clauses, which may be empty (query: {})
NilQuery == [nil |-> TRUE, clauses |-> {}]

Queries == {NilQuery, [nil |-> FALSE, clauses |-> {}],
            [nil |-> FALSE, clauses |-> {"match"}]}

\* BuildTimeRangeQuery at time t; both bounds are printed in RFC 3339, to the
\* second
BuildTimeRangeQuery(r, bufferTime, t) ==
    [must |-> <<[range |-> "@timestamp", gte |-> t - r.timeframe, lte |-> t]>>
              \o (IF ~r.query.nil THEN <<r.query>> ELSE << >>),
     size |-> QuerySize,
     sort |-> <<"@timestamp", "desc">>]

\* ------------------------------------------------------- trigger predicate
\* variant: a flatline rule also fires at the threshold
shouldTriggerAlert_FlatlineAtThreshold(r, resp) ==
    LET count == resp.total IN
    CASE r.type = "any"      -> count > 0
      [] r.type = "flatline" -> count <= r.threshold
      [] r.type = "change"   -> count > 0
      [] OTHER               -> count >= r.threshold

shouldTriggerAlert(r, resp) ==
    LET count == resp.total IN
    CASE r.type = "frequency" -> count >= r.threshold
      [] r.type = "any"       -> count > 0
      [] r.type = "spike"     -> count >= r.threshold
      [] r.type = "flatline"  -> count < r.threshold
      [] r.type = "change"    -> count > 0
      [] OTHER                -> count >= r.threshold

\* ------------------------------------------------------------ level resolution
\* A rule name is given by the set of the words its text contains, as they are
\* written.  The zh_ words stand for the Chinese words the code looks for
\* (system component, error, security, warning); "error" and "warning" are the
\* English words, as in the name "app-errors".
NameWords ==
    {"zh_syscomponent", "zh_error", "zh_security", "zh_warning",
     "fatal", "FATAL", "Panic", "error", "warning"}

\* strings.ToLower of one word, and of a name
LowerWord(w) ==
    CASE w = "FATAL" -> "fatal"
      [] w = "Panic" -> "panic"
      [] OTHER       -> w

ToLower(name) == {LowerWord(w) : w \in name}

\* variant: the application-error pattern is tried first
determineAlertLevel_ErrorFirst(r) ==
    LET ruleName == ToLower(r.name) IN
    IF r.level # "" THEN r.level
    ELSE IF "zh_error" \in ruleName THEN "High"
    ELSE IF "zh_security" \in ruleName THEN "Critical"
    ELSE IF "fatal" \in ruleName \/ "panic" \in ruleName THEN "Critical"
    ELSE IF "zh_syscomponent" \in ruleName /\ "zh_warning" \in ruleName THEN "High"
    ELSE IF "zh_warning" \in ruleName /\ "zh_syscomponent" \notin ruleName THEN "Medium"
    ELSE "Low"

\* determineAlertLevel
determineAlertLevel(r) ==
    LET ruleName == ToLower(r.name) IN
    IF r.level # "" THEN r.level
    ELSE IF "zh_syscomponent" \in ruleName /\ "zh_error" \in ruleName THEN "Critical"
    ELSE IF "zh_security" \in ruleName THEN "Critical"
    ELSE IF "fatal" \in ruleName \/ "panic" \in ruleName THEN "Critical"
    ELSE IF "zh_error" \in ruleName /\ "zh_syscomponent" \notin ruleName THEN "High"
    ELSE IF "zh_syscomponent" \in ruleName /\ "zh_warning" \in ruleName THEN "High"
    ELSE IF "zh_warning" \in ruleName /\ "zh_syscomponent" \notin ruleName THEN "Medium"
    ELSE "Low"

\* ------------------------------------------------------------------ renderer
\* detectEventType; the index pattern is given by the set of the substrings
\* "events", "logging", "auditing" it contains
\* variant: "logging" is looked for before "events"
detectEventType_LoggingFirst(index) ==
    IF "logging" \in index THEN "logging"
    ELSE IF "events" \in index THEN "events"
    ELSE IF "auditing" \in index THEN "auditing"
    ELSE "default"

detectEventType(index) ==
    IF "events" \in index THEN "events"
    ELSE IF "logging" \in index THEN "logging"
    ELSE IF "auditing" \in index THEN "auditing"
    ELSE "default"

\* buildDefaultAlertMessage prints time.Now() to the second; the other
\* templates print only the rule and fields of the response
buildDefaultAlertMessage(r, resp, t) == <<"default", resp, t>>

\* the body the index pattern selects: a message is the tuple of what its
\* text is made of (the rule is the same in every message of a behaviour)
TemplateBody(r, resp, t) ==
    LET eventType == detectEventType(r.index) IN
    IF eventType = "default" THEN buildDefaultAlertMessage(r, resp, t)
    ELSE IF eventType = "logging" /\ "zh_syscomponent" \in r.name
    THEN <<"logging_syscomponent", resp, ZeroTime>>
    ELSE <<eventType, resp, ZeroTime>>

\* A decoded JSON value: a leaf with its printed form, or an object with its
\* members and its JSON text
Leaf(kind, text) == [kind |-> kind, text |-> text, kids |-> << >>]

Obj(kids, json) == [kind |-> "map", text |-> json, kids |-> kids]

Nil == Leaf("nil", "")

\* the _source of the first hit of a response that has hits
FirstHit ==
    Obj([k \in {"host", "count", "gone", "kubernetes"} |->
            CASE k = "host"  -> Leaf("string", "db-0")
              [] k = "count" -> Leaf("float64", "3")
              [] k = "gone"  -> Nil
              [] OTHER       -> Obj([j \in {"pod"} |-> Leaf("string", "p1")],
                                    "{pod:p1}")],
        "{...}")

\* response.Hits.Hits[0].Source, or an empty map when there are no hits
HitSource(resp) == IF resp.hits > 0 THEN FirstHit ELSE Obj(<< >>, "{}")

\* the loop of getValueByPath over the segments of the path
RECURSIVE WalkPath(_, _)
WalkPath(cur, parts) ==
    IF parts = << >> THEN cur
    ELSE IF cur.kind # "map" THEN Nil
    ELSE IF Head(parts) \in DOMAIN cur.kids
    THEN WalkPath(cur.kids[Head(parts)], Tail(parts))
    ELSE WalkPath(Nil, Tail(parts))

\* variant: only the first segment of the path is looked up
getValueByPath_TopLevel(root, path) ==
    IF path = << >> THEN "" ELSE WalkPath(root, <<Head(path)>>).text

\* getValueByPath; a path is the sequence of its dot-separated segments, the
\* empty path the empty sequence
getValueByPath(root, path) ==
    IF path = << >> THEN ""
    ELSE LET v == WalkPath(root, path) IN
         IF v.kind = "nil" THEN "" ELSE v.text

\* the custom texts of the model, as the placeholder pattern splits them:
\* literal pieces and ${path} placeholders
Lit(s) == [ph |-> FALSE, lit |-> s, path |-> << >>]

Ph(path) == [ph |-> TRUE, lit |-> "", path |-> path]

TextTokens(text) ==
    CASE text = "" -> << >>
      [] text = "Host ${host} failed" -> <<Lit("Host "), Ph(<<"host">>), Lit(" failed")>>
      [] text = "${kubernetes.pod}${count}${host.name}" ->
            <<Ph(<<"kubernetes", "pod">>), Ph(<<"count">>), Ph(<<"host", "name">>)>>
      [] text = "${gone}${nope.x}" -> <<Ph(<<"gone">>), Ph(<<"nope", "x">>)>>
      [] OTHER -> <<Lit(text)>>

\* a text as the sequence of its non-empty pieces
RECURSIVE Pieces(_)
Pieces(strs) ==
    IF strs = << >> THEN << >>
    ELSE IF Head(strs) = "" THEN Pieces(Tail(strs))
    ELSE <<Head(strs)>> \o Pieces(Tail(strs))

\* the "data fields" entries: one per path that is not blank
RECURSIVE FieldEntries(_, _)
FieldEntries(source, args) ==
    IF args = << >> THEN << >>
    ELSE IF Head(args) = << >> THEN FieldEntries(source, Tail(args))
    ELSE <<<<Head(args), getValueByPath(source, Head(args))>>>>
         \o FieldEntries(source, Tail(args))

\* buildCustomAlertMessage: the custom text with its placeholders filled from
\* the first hit, and the data-fields list when the rule has alert_text_args
buildCustomAlertMessage(r, resp) ==
    LET source == HitSource(resp)
        toks   == TextTokens(r.alert_text)
        text   == Pieces([i \in 1..Len(toks) |->
                            IF toks[i].ph THEN getValueByPath(source, toks[i].path)
                            ELSE toks[i].lit])
    IN  IF Len(r.alert_text_args) = 0
        THEN [text |-> text, listed |-> FALSE, fields |-> << >>]
        ELSE [text |-> text, listed |-> TRUE,
              fields |-> FieldEntries(source, r.alert_text_args)]

\* custom == "": nothing was written
EmptyCustom(custom) == custom.text = << >> /\ ~custom.listed

\* variant: every template prints the time of the call
BuildAlertMessage_AllStamped(r, resp, t) ==
    LET details == <<detectEventType(r.index), resp, t>>
        custom  == buildCustomAlertMessage(r, resp)
    IN  IF r.alert_text # "" /\ ~EmptyCustom(custom) THEN <<custom, details>>
        ELSE details

\* BuildAlertMessage: the selected body, under the custom text if the rule
\* has one
BuildAlertMessage(r, resp, t) ==
    LET details == TemplateBody(r, resp, t)
        custom  == buildCustomAlertMessage(r, resp)
    IN  IF r.alert_text # "" /\ ~EmptyCustom(custom) THEN <<custom, details>>
        ELSE details

\* the alert object built at the top of triggerAlert at time t
NewAlert(r, resp, t) ==
    [id        |-> <<r.id, t>>,
     rule_name |-> r.id,
     level     |-> determineAlertLevel(r),
     message   |-> BuildAlertMessage(r, resp, t),
     count     |-> resp.total,
     matches   |-> resp.hits]

\* ------------------------------------------------------------- rule_locks
NoLockRow == [exists |-> FALSE, locked_by |-> "", locked_at |-> NullTime]

\* INSERT [OR] IGNORE INTO rule_locks(rule_name, ttl_seconds)
LockInsertIgnore(row) ==
    IF row.exists THEN row
    ELSE [exists |-> TRUE, locked_by |-> "", locked_at |-> NullTime]

\* locked_at <= DATE_SUB(now, INTERVAL ttl_seconds SECOND)   (MySQL, by value)
\* locked_at <= datetime(now, '-' || ttl_seconds || ' seconds')  (SQLite, as text)
LockExpired(db, row, t) ==
    IF db = "mysql" THEN row.locked_at.sec <= t - LeaseTTL
    ELSE IF row.locked_at.sfx = 1 THEN row.locked_at.sec < t - LeaseTTL
    ELSE row.locked_at.sec <= t - LeaseTTL

\* the WHERE clause of the UPDATE of AcquireRuleLock
LockWhere(db, row, instanceID, t) ==
    /\ row.exists
    /\ \/ row.locked_at = NullTime
       \/ LockExpired(db, row, t)
       \/ row.locked_by = instanceID

\* AcquireRuleLock with the store up: the row after the two statements
AcquireRuleLock(db, row, instanceID, t) ==
    LET r1 == LockInsertIgnore(row) IN
    IF LockWhere(db, r1, instanceID, t)
    THEN [r1 EXCEPT !.locked_by = instanceID, !.locked_at = [sec |-> t, sfx |-> 1]]
    ELSE r1

\* RowsAffected() = 1 of that UPDATE
AcquireRowsAffected(db, row, instanceID, t) ==
    LockWhere(db, LockInsertIgnore(row), instanceID, t)

\* ReleaseRuleLock: MySQL backdates by ttl_seconds, SQLite by one second
\* variant: the row is released whoever holds it
ReleaseRuleLock_AnyHolder(db, row, instanceID, t) ==
    IF row.exists
    THEN [row EXCEPT !.locked_by = "",
                     !.locked_at = IF db = "mysql"
                                   THEN [sec |-> t - LeaseTTL, sfx |-> 0]
                                   ELSE [sec |-> t - 1, sfx |-> 0]]
    ELSE row

ReleaseRuleLock(db, row, instanceID, t) ==
    IF row.exists /\ row.locked_by = instanceID
    THEN [row EXCEPT !.locked_by = "",
                     !.locked_at = IF db = "mysql"
                                   THEN [sec |-> t - LeaseTTL, sfx |-> 0]
                                   ELSE [sec |-> t - 1, sfx |-> 0]]
    ELSE row

\* ------------------------------------------------------------ alert_dedupe
\* ttlSeconds <= 0 is replaced by 120
EffectiveTTL(ttl) == IF ttl <= 0 THEN DefaultDedupeTTL ELSE ttl

\* dedupeKey = rule|level|sha1(message)
DedupeKey(a) == <<a.rule_name, a.level, a.message>>

\* INSERT [OR] IGNORE of the placeholder row.  MySQL evaluates the column
\* ttl_seconds inside VALUES to its default; SQLite rejects the statement
\* ("no such column: ttl_seconds") and the error is dropped.
DedupeInsertIgnore(db, tbl, key, t) ==
    IF db = "mysql" /\ key \notin DOMAIN tbl
    THEN [k \in DOMAIN tbl \cup {key} |->
            IF k = key THEN t - DedupeColumnDefault ELSE tbl[k]]
    ELSE tbl

\* SELECT last_sent ...; sql.ErrNoRows leaves the zero time
DedupeSelect(tbl, key) == IF key \in DOMAIN tbl THEN tbl[key] ELSE ZeroTime

\* !lastSent.IsZero() && lastSent.After(now.Add(-ttl))
WithinTTL(lastSent, t, ttl) ==
    lastSent # ZeroTime /\ lastSent > t - EffectiveTTL(ttl)

\* UPDATE alert_dedupe SET last_sent = now WHERE dedupe_key = key
DedupeTouch(tbl, key, t) ==
    IF key \in DOMAIN tbl THEN [tbl EXCEPT ![key] = t] ELSE tbl

\* --------------------------------------------------------- alert_history
\* SaveAlert: the inserted row; src and eval record who inserted it
HistoryRow(a, src, e) ==
    [alert_id |-> a.id, rule_name |-> a.rule_name, level |-> a.level,
     message |-> a.message, count |-> a.count, matches |-> a.matches,
     src |-> src, eval |-> e]

\* the synthetic alert of the web test-notification handler
TestAlert(t) ==
    [id |-> <<"test-web", t>>, rule_name |-> "web-test", level |-> "Info",
     message |-> <<"test", NoResp, ZeroTime>>, count |-> 1, matches |-> 1]

\* ------------------------------------------------------- in-memory status
NoStatus == [exists |-> FALSE, lastAlert |-> ZeroTime, alertCount |-> 0,
             suppressed |-> FALSE, suppressUntil |-> ZeroTime]

\* isSuppressed: the value returned
isSuppressed(st, t) ==
    st.exists /\ st.suppressed /\ ~(t > st.suppressUntil)

\* isSuppressed: the status entry it leaves behind
ClearSuppressed(st, t) ==
    IF st.exists /\ st.suppressed /\ t > st.suppressUntil
    THEN [st EXCEPT !.suppressed = FALSE]
    ELSE st

\* the configuration: suppression switch, count-scaled window switch and its
\* hours, enabled notifiers
Config(suppress, exponential, hours) ==
    [suppress |-> suppress, exponential |-> exponential, hours |-> hours,
     enabled |-> Enabled, max_running_rules |-> DefaultMaxRunningRules]

\* the suppression window in seconds after the count-th alert
suppressDuration(c, count) ==
    IF c.exponential THEN c.hours * 3600 * count ELSE RealertMinutes * 60

\* variant: the window is counted from the alert's timestamp
updateAlertStatus_FromAlertTime(st, a, c, t) ==
    LET s1 == [st EXCEPT !.exists = TRUE, !.lastAlert = a.id[2],
                         !.alertCount = st.alertCount + 1] IN
    IF c.suppress
    THEN [s1 EXCEPT !.suppressed = TRUE,
                    !.suppressUntil = a.id[2] + suppressDuration(c, s1.alertCount)]
    ELSE s1

\* variant: the window is scaled by the count before the increment
updateAlertStatus_CountBefore(st, a, c, t) ==
    LET s1 == [st EXCEPT !.exists = TRUE, !.lastAlert = a.id[2],
                         !.alertCount = st.alertCount + 1] IN
    IF c.suppress
    THEN [s1 EXCEPT !.suppressed = TRUE,
                    !.suppressUntil = t + suppressDuration(c, st.alertCount)]
    ELSE s1

\* updateAlertStatus at time t
updateAlertStatus(st, a, c, t) ==
    LET s1 == [st EXCEPT !.exists = TRUE, !.lastAlert = a.id[2],
                         !.alertCount = st.alertCount + 1] IN
    IF c.suppress
    THEN [s1 EXCEPT !.suppressed = TRUE,
                    !.suppressUntil = t + suppressDuration(c, s1.alertCount)]
    ELSE s1

\* ------------------------------------------------- control flow of runRule
\* variant: an error of AcquireRuleLock is logged and the evaluation goes on
AfterAcquire_ContinueOnError(err, locked) ==
    IF err THEN "suppress" ELSE IF ~locked THEN "done" ELSE "suppress"

\* after AcquireRuleLock: an error or a lost lease ends the evaluation
AfterAcquire(err, locked) ==
    IF err THEN "done" ELSE IF ~locked THEN "done" ELSE "suppress"

\* after isSuppressed
AfterSuppress(suppressed) == IF suppressed THEN "release" ELSE "search"

\* variant: a failed search falls through to triggerAlert
AfterSearch_FallThrough(err, trip) ==
    IF err THEN "dedupInsert" ELSE IF trip THEN "dedupInsert" ELSE "release"

\* variant: the search-error return skips the release
AfterSearch_NoDefer(err, trip) ==
    IF err THEN "done" ELSE IF trip THEN "dedupInsert" ELSE "release"

\* after Search and shouldTriggerAlert; every return runs the deferred release
AfterSearch(err, trip) ==
    IF err THEN "release" ELSE IF trip THEN "dedupInsert" ELSE "release"

\* variant: a failed dedup check is logged and the alert is sent all the same
AfterDedupe_ContinueOnError(shouldSend, err) ==
    IF err THEN "send" ELSE IF ~shouldSend THEN "release" ELSE "send"

\* variant: the result of ShouldSendAndTouch is ignored
AfterDedupe_Ignored(shouldSend, err) == "send"

\* triggerAlert after ShouldSendAndTouch: the error is only logged, and
\* shouldSend = false returns
AfterDedupe(shouldSend, err) == IF ~shouldSend THEN "release" ELSE "send"

\* variant: a send is started for every registered notifier
SendAlertTargets_Registered(a, c) == Notifiers

\* Notifier.SendAlert(alert): the notifiers a send is started for.  The call
\* is given the alert only, not the rule, and starts one send for every
\* notifier whose IsEnabled() is true
SendAlertTargets(a, c) == c.enabled

\* variant: the collected errors are returned
SendAlertResult_Propagate(errs) == IF errs = {} THEN "nil" ELSE "err"

\* Notifier.SendAlert: the value returned once every send has returned
SendAlertResult(errs) == "nil"

\* variant: the history write is skipped
AfterSendAlert_NoSave(ret) == "release"

\* triggerAlert after SendAlert: an error is only logged
AfterSendAlert(ret) == "save"

\* -------------------------------------------------------------------- Init
NoProbe == [phase |-> "off", n |-> 0, fired |-> FALSE]

\* an evaluation: pc and the locals of runRule / triggerAlert / SendAlert;
\* lock, insErr, send, sendErr, saved record what the calls returned, released the
\* instance id passed to ReleaseRuleLock, and pred the evaluations that had
\* returned when this one began
IdleEval ==
    [pc |-> "idle", rep |-> "A", lock |-> "none",
     attemptAt |-> ZeroTime, resp |-> NoResp, alert |-> NoAlert,
     insErr |-> FALSE, send |-> "none", pending |-> {}, invoked |-> {}, errs |-> {},
     sendRet |-> "none", sendErr |-> FALSE, saved |-> "none",
     released |-> "", pred |-> {}, recordAt |-> ZeroTime]

IndexSets == {{}, {"logging"}}

MainRule(ix) ==
    [id |-> "r1", name |-> {}, type |-> "frequency",
     threshold |-> DefaultThreshold,
     index |-> ix, level |-> "", alert |-> {}, alert_text |-> "",
     alert_text_args |-> << >>, timeframe |-> DefaultTimeframe,
     query |-> NilQuery,
     enabled |-> TRUE, loaded |-> TRUE]

InitCommon ==
    /\ now = 0
    /\ advances = 0
    /\ lockRow = NoLockRow
    /\ dedupe = << >>
    /\ history = {}
    /\ writeback = << >>
    /\ status = [r \in Rep |-> NoStatus]
    /\ ev = [e \in Evals |-> IdleEval]
    /\ started = 0
    /\ lastStart = [r \in Rep |-> ZeroTime]
    /\ tests = 0
    /\ storeUp = TRUE
    /\ outages = 0
    /\ proc = [r \in Rep |-> "running"]

Init ==
    /\ InitCommon
    /\ dbType \in {"mysql", "sqlite"}
    /\ cfg \in {Config(su, FALSE, 0) : su \in BOOLEAN}
    /\ declared \in {MainRule(ix) : ix \in IndexSets}
    /\ rule = Backfill(declared)
    /\ probe = NoProbe
    /\ replicas = Rep

envVars == <<now, advances, dbType, cfg, declared, rule, probe, replicas,
             storeUp, outages, proc>>

\* ----------------------------------------------------------------- actions
\* variant: the driver calls runRule inline and skips a tick while an
\* evaluation of the replica is still running
runRules_Inline(evs, r) ==
    \A d \in Evals : evs[d].rep = r => evs[d].pc \in {"idle", "done", "killed"}

\* runRules: "go e.runRule(rule)" for every loaded rule; whether the goroutine
\* is started does not depend on the evaluations evs begun before
runRules(evs, r) == TRUE

\* the cron driver of replica r fires and runRules starts the goroutine of the
\* rule: AcquireRuleLock with its two early returns, then isSuppressed.
\* dbOk: the UPDATE statement is answered.  The first evaluation is one of
\* replica A (the replicas are interchangeable).
Start(e, r, dbOk) ==
    /\ e = started + 1
    /\ ev[e].pc = "idle"
    /\ rule.loaded
    /\ r \in replicas
    /\ proc[r] = "running"
    /\ runRules(ev, r)
    /\ storeUp \/ ~dbOk
    /\ e = 1 => r = "A"
    /\ now >= lastStart[r] + RunInterval
    /\ started' = e
    /\ lastStart' = [lastStart EXCEPT ![r] = now]
    /\ LET inst == getInstanceID(r)
           ok == dbOk /\ AcquireRowsAffected(dbType, lockRow, inst, now)
           pc1 == AfterAcquire(~dbOk, ok)
           pc2 == IF pc1 = "suppress"
                  THEN AfterSuppress(isSuppressed(status[r], now)) ELSE pc1
       IN
       /\ lockRow' = IF dbOk THEN AcquireRuleLock(dbType, lockRow, inst, now)
                     ELSE lockRow
       /\ status' = IF pc1 = "suppress"
                    THEN [status EXCEPT ![r] = ClearSuppressed(status[r], now)]
                    ELSE status
       /\ ev' = [ev EXCEPT ![e] = [@ EXCEPT !.pc = pc2, !.rep = r,
                     !.lock = IF ~dbOk THEN "err" ELSE IF ok THEN "held" ELSE "denied",
                     !.attemptAt = now,
                     !.pred = {d \in Evals : ev[d].pc = "done"}]]
    /\ UNCHANGED <<envVars, dedupe, history, writeback, tests>>

\* runRule: the search fails (transport, status, or the 30 s deadline)
SearchError(e) ==
    /\ ev[e].pc = "search"
    /\ ev' = [ev EXCEPT ![e] = [@ EXCEPT !.pc = AfterSearch(TRUE, FALSE),
                  !.resp = ErrResp]]
    /\ UNCHANGED <<envVars, lockRow, dedupe, history, writeback, status,
                   started, lastStart, tests>>

\* runRule: the search answers; shouldTriggerAlert; triggerAlert builds the
\* alert and enters ShouldSendAndTouch, which reads the clock
SearchOk(e, resp) ==
    /\ ev[e].pc = "search"
    /\ now <= ev[e].attemptAt + EvalDeadline
    /\ LET trip == shouldTriggerAlert(rule, resp) IN
       ev' = [ev EXCEPT ![e] = [@ EXCEPT !.pc = AfterSearch(FALSE, trip),
                  !.resp = resp,
                  !.alert = IF trip THEN NewAlert(rule, resp, now) ELSE NoAlert]]
    /\ UNCHANGED <<envVars, lockRow, dedupe, history, writeback, status,
                   started, lastStart, tests>>

\* ShouldSendAndTouch: the placeholder INSERT, its error dropped (insOk: the
\* store answers the statement; for SQLite the outcome is the same either
\* way), then the SELECT (selOk) and the TTL test
DedupSelect(e, insOk, selOk) ==
    /\ ev[e].pc = "dedupInsert"
    /\ dbType = "sqlite" => insOk
    /\ storeUp \/ (~selOk /\ (dbType = "sqlite" \/ ~insOk))
    /\ LET key == DedupeKey(ev[e].alert)
           tbl == IF insOk
                  THEN DedupeInsertIgnore(dbType, dedupe, key, ev[e].alert.id[2])
                  ELSE dedupe
           lastSent == DedupeSelect(tbl, key)
           hit == WithinTTL(lastSent, ev[e].alert.id[2], DedupeTTL)
       IN
       /\ dedupe' = tbl
       /\ ev' = [ev EXCEPT ![e] =
                IF ~selOk
                THEN [@ EXCEPT !.pc = AfterDedupe(FALSE, TRUE), !.send = "err",
                               !.insErr = ~insOk]
                ELSE IF hit
                THEN [@ EXCEPT !.pc = AfterDedupe(FALSE, FALSE), !.send = "false",
                               !.insErr = ~insOk]
                ELSE [@ EXCEPT !.pc = "dedupUpdate", !.insErr = ~insOk]]
    /\ UNCHANGED <<envVars, lockRow, history, writeback, status, started,
                   lastStart, tests>>

\* ShouldSendAndTouch: the UPDATE; on success triggerAlert calls SendAlert,
\* which starts one send per enabled notifier
DedupUpdate(e, dbOk) ==
    /\ ev[e].pc = "dedupUpdate"
    /\ storeUp \/ ~dbOk
    /\ dedupe' = IF dbOk
                 THEN DedupeTouch(dedupe, DedupeKey(ev[e].alert), ev[e].alert.id[2])
                 ELSE dedupe
    /\ ev' = [ev EXCEPT ![e] =
                IF ~dbOk
                THEN [@ EXCEPT !.pc = AfterDedupe(FALSE, TRUE), !.send = "err"]
                ELSE [@ EXCEPT !.pc = AfterDedupe(TRUE, FALSE), !.send = "true",
                               !.pending = IF AfterDedupe(TRUE, FALSE) = "send"
                                           THEN SendAlertTargets(ev[e].alert, cfg)
                                           ELSE {}]]
    /\ UNCHANGED <<envVars, lockRow, history, writeback, status, started,
                   lastStart, tests>>

\* one notifier's Send returns, with or without an error
Send(e, c, ok) ==
    /\ ev[e].pc = "send"
    /\ c \in ev[e].pending
    /\ ev' = [ev EXCEPT ![e] = [@ EXCEPT !.pending = @ \ {c},
                  !.invoked = @ \cup {c},
                  !.errs = IF ok THEN @ ELSE @ \cup {c}]]
    /\ UNCHANGED <<envVars, lockRow, dedupe, history, writeback, status,
                   started, lastStart, tests>>

\* SendAlert: wg.Wait() is over, the errors are logged, nil is returned
SendAlertReturn(e) ==
    /\ ev[e].pc = "send"
    /\ ev[e].pending = {}
    /\ LET ret == SendAlertResult(ev[e].errs) IN
       ev' = [ev EXCEPT ![e] = [@ EXCEPT !.sendRet = ret, !.pc = AfterSendAlert(ret),
                  !.sendErr = ev[e].errs # {}, !.errs = {}]]
    /\ UNCHANGED <<envVars, lockRow, dedupe, history, writeback, status,
                   started, lastStart, tests>>

\* triggerAlert: SaveAlert, its error only logged, then updateAlertStatus
SaveAlert(e, dbOk) ==
    /\ ev[e].pc = "save"
    /\ storeUp \/ ~dbOk
    /\ history' = IF dbOk
                  THEN history \cup {HistoryRow(ev[e].alert, "engine", e)}
                  ELSE history
    /\ status' = [status EXCEPT ![ev[e].rep] =
                     updateAlertStatus(@, ev[e].alert, cfg, now)]
    /\ ev' = [ev EXCEPT ![e] = [@ EXCEPT !.pc = "record", !.recordAt = now,
                  !.saved = IF dbOk THEN "ok" ELSE "err"]]
    /\ UNCHANGED <<envVars, lockRow, dedupe, writeback, started,
                   lastStart, tests>>

\* triggerAlert: recordAlert indexes the alert under its id, best effort, under
\* a context of its own that expires WritebackTimeout after the call began
RecordAlert(e, ok) ==
    /\ ev[e].pc = "record"
    /\ ok => now <= ev[e].recordAt + WritebackTimeout
    /\ writeback' = IF ok
                    THEN [k \in DOMAIN writeback \cup {ev[e].alert.id} |->
                            IF k = ev[e].alert.id THEN e ELSE writeback[k]]
                    ELSE writeback
    /\ ev' = [ev EXCEPT ![e] = [@ EXCEPT !.pc = "release", !.recordAt = ZeroTime]]
    /\ UNCHANGED <<envVars, lockRow, dedupe, history, status, started,
                   lastStart, tests>>

\* runRule returns: the deferred ReleaseRuleLock, its error only logged
Release(e, dbOk) ==
    /\ ev[e].pc = "release"
    /\ storeUp \/ ~dbOk
    /\ lockRow' = IF dbOk
                  THEN ReleaseRuleLock(dbType, lockRow, getInstanceID(ev[e].rep), now)
                  ELSE lockRow
    /\ ev' = [ev EXCEPT ![e] = [@ EXCEPT !.pc = "done",
                  !.released = getInstanceID(ev[e].rep)]]
    /\ UNCHANGED <<envVars, dedupe, history, writeback, status, started,
                   lastStart, tests>>

\* Server.handleTestNotification: a request of a non-admin is refused; for an
\* admin SendAlert of a synthetic alert (which returns nil), then SaveAlert
\* with its result ignored.  No ShouldSendAndTouch on this path.
TestNotification(admin, dbOk) ==
    /\ tests < MaxTests
    /\ storeUp \/ ~dbOk
    /\ LET saved == admin /\ SendAlertResult({}) = "nil" /\ dbOk IN
       /\ tests' = IF saved THEN tests + 1 ELSE tests
       /\ history' = IF saved
                     THEN history \cup {HistoryRow(TestAlert(now), "web", tests + 1)}
                     ELSE history
    /\ UNCHANGED <<envVars, lockRow, dedupe, writeback, status, ev, started,
                   lastStart>>

\* the clock advances to the next instant of interest: a tick of the cron
\* driver (0, 60, ...), the second after it, and the second after the lease
\* taken at the tick has expired in both dialects (31, 91, ...)
NextInstant(t) ==
    IF t % LeaseTTL = 0 THEN t + 1
    ELSE IF t % RunInterval = 1 THEN t + LeaseTTL
    ELSE t + (LeaseTTL - 1)

Advance ==
    /\ advances < MaxAdvances
    /\ now' = NextInstant(now)
    /\ advances' = advances + 1
    /\ UNCHANGED <<dbType, cfg, declared, rule, probe, replicas, storeUp,
                   outages, proc, lockRow, dedupe, history, writeback, status, ev,
                   started, lastStart, tests>>

Next ==
    \/ \E e \in Evals, r \in Rep, dbOk \in BOOLEAN : Start(e, r, dbOk)
    \/ \E e \in Evals : SearchError(e)
    \/ \E e \in Evals, resp \in Responses : SearchOk(e, resp)
    \/ \E e \in Evals, insOk \in BOOLEAN, selOk \in BOOLEAN : DedupSelect(e, insOk, selOk)
    \/ \E e \in Evals, dbOk \in BOOLEAN : DedupUpdate(e, dbOk)
    \/ \E e \in Evals, c \in Notifiers, ok \in BOOLEAN : Send(e, c, ok)
    \/ \E e \in Evals : SendAlertReturn(e)
    \/ \E e \in Evals, dbOk \in BOOLEAN : SaveAlert(e, dbOk)
    \/ \E e \in Evals, ok \in BOOLEAN : RecordAlert(e, ok)
    \/ \E e \in Evals, dbOk \in BOOLEAN : Release(e, dbOk)
    \/ Advance

Spec == Init /\ [][Next]_vars

\* ------------------------------------------------- engine and web server
\* one deployment (a single replica, MySQL store, suppression off, email the
\* only enabled notifier) with the web server's test endpoint next to the
\* engine
InitWeb ==
    /\ InitCommon
    /\ dbType = "mysql"
    /\ cfg = [Config(FALSE, FALSE, 0) EXCEPT !.enabled = {"email"}]
    /\ declared = MainRule({"logging"})
    /\ rule = Backfill(declared)
    /\ probe = NoProbe
    /\ replicas = {"A"}

NextWeb ==
    \/ Next
    \/ \E admin \in BOOLEAN, dbOk \in BOOLEAN : TestNotification(admin, dbOk)

SpecWeb == InitWeb /\ [][NextWeb]_vars

\* ------------------------------------------------------- level resolution
\* a rule of any name and any declared level (none, one of the documented
\* ones, one written otherwise) is loaded; triggerAlert resolves its level
\* (LevelStep)
DeclaredLevels == {"", "Critical", "Info", "warn"}

InitLevel ==
    /\ InitCommon
    /\ dbType = "mysql"
    /\ cfg = Config(FALSE, FALSE, 0)
    /\ declared \in {[MainRule({}) EXCEPT !.name = nm, !.level = lv] :
                        nm \in SUBSET NameWords, lv \in DeclaredLevels}
    /\ rule = Backfill(declared)
    /\ replicas = Rep
    /\ probe = [phase |-> "loaded", level |-> ""]

LevelStep ==
    /\ probe.phase = "loaded"
    /\ probe' = [phase |-> "resolved", level |-> determineAlertLevel(rule)]
    /\ UNCHANGED <<now, advances, dbType, cfg, declared, rule, replicas,
                   storeUp, outages, proc, lockRow, dedupe, history, writeback,
                   status, ev, started, lastStart, tests>>

NextLevel == LevelStep

SpecLevel == InitLevel /\ [][NextLevel]_vars

\* ---------------------------------------------------- enabling and disabling
\* config.LoadRules followed by Engine.LoadRules at startup: the rule of the
\* file d is in the engine's list (loaded) only if the file says enabled
LoadRules(d) == [Backfill(d) EXCEPT !.loaded = d.enabled]

\* Server.updateRuleEnabled: the rule file is rewritten with the new flag;
\* the engine's list is not touched
updateRuleEnabled(d, enabled) == [d EXCEPT !.enabled = enabled]

\* Server.handleDisableRule: refused for a non-admin
DisableRule(admin) ==
    /\ declared' = IF admin THEN updateRuleEnabled(declared, FALSE) ELSE declared
    /\ UNCHANGED <<now, advances, dbType, cfg, rule, probe, replicas, storeUp,
                   outages, proc, lockRow, dedupe, history, writeback, status, ev,
                   started, lastStart, tests>>

\* Server.handleEnableRule: refused for a non-admin
EnableRule(admin) ==
    /\ declared' = IF admin THEN updateRuleEnabled(declared, TRUE) ELSE declared
    /\ UNCHANGED <<now, advances, dbType, cfg, rule, probe, replicas, storeUp,
                   outages, proc, lockRow, dedupe, history, writeback, status, ev,
                   started, lastStart, tests>>

\* one deployment (a single replica, MySQL store, suppression off) started
\* on a rule file that says enabled or disabled, with the web server's rule
\* endpoints next to the engine
InitDisable ==
    /\ InitCommon
    /\ dbType = "mysql"
    /\ cfg = Config(FALSE, FALSE, 0)
    /\ declared \in {[MainRule({"logging"}) EXCEPT !.enabled = en] : en \in BOOLEAN}
    /\ rule = LoadRules(declared)
    /\ probe = NoProbe
    /\ replicas = {"A"}

NextDisable ==
    \/ Next
    \/ \E admin \in BOOLEAN : DisableRule(admin)
    \/ \E admin \in BOOLEAN : EnableRule(admin)

SpecDisable == InitDisable /\ [][NextDisable]_vars

\* ---------------------------------------------------------------- channels
\* one deployment (a single replica, MySQL store, suppression off) whose rule
\* names any of the enabled notifiers in its alert list, or none
InitChannels ==
    /\ InitCommon
    /\ dbType = "mysql"
    /\ cfg = Config(FALSE, FALSE, 0)
    /\ declared \in {[MainRule({"logging"}) EXCEPT !.alert = ch] :
                        ch \in SUBSET Enabled}
    /\ rule = Backfill(declared)
    /\ probe = NoProbe
    /\ replicas = {"A"}

SpecChannels == InitChannels /\ [][Next]_vars

\* --------------------------------------------------------------- rendering
\* a rule of any index pattern, with or without custom text, and one search
\* response; BuildAlertMessage is called on them (RenderStep) and called
\* again on the same two (RenderAgain) while the clock runs
IndexWords == {"events", "logging", "auditing"}

\* custom texts: none, plain, and with placeholders that resolve to a string,
\* to a nested field, a number, a field under a string, a null and a missing
\* field
AlertTexts ==
    {"", "text", "Host ${host} failed", "${kubernetes.pod}${count}${host.name}",
     "${gone}${nope.x}"}

\* alert_text_args: none, paths with a blank one among them, an object path
AlertTextArgs ==
    {<< >>, <<<<"host">>, << >>, <<"nope">>>>, <<<<"kubernetes">>>>, <<<< >>>>}

InitRender ==
    /\ InitCommon
    /\ dbType = "mysql"
    /\ cfg = Config(FALSE, FALSE, 0)
    /\ declared \in {[MainRule(ix) EXCEPT !.alert_text = tx, !.name = nm,
                                           !.alert_text_args = args] :
                        ix \in SUBSET IndexWords, tx \in AlertTexts,
                        nm \in {{}, {"zh_syscomponent"}}, args \in AlertTextArgs}
    /\ rule = Backfill(declared)
    /\ replicas = Rep
    /\ probe \in {[phase |-> "loaded", resp |-> resp, first |-> << >>,
                    at |-> ZeroTime, second |-> << >>] : resp \in Responses}

RenderStep ==
    /\ probe.phase = "loaded"
    /\ probe' = [probe EXCEPT !.phase = "once", !.at = now,
                    !.first = BuildAlertMessage(rule, probe.resp, now)]
    /\ UNCHANGED <<now, advances, dbType, cfg, declared, rule, replicas,
                   storeUp, outages, proc, lockRow, dedupe, history, writeback,
                   status, ev, started, lastStart, tests>>

RenderAgain ==
    /\ probe.phase = "once"
    /\ probe' = [probe EXCEPT !.phase = "twice",
                    !.second = BuildAlertMessage(rule, probe.resp, now)]
    /\ UNCHANGED <<now, advances, dbType, cfg, declared, rule, replicas,
                   storeUp, outages, proc, lockRow, dedupe, history, writeback,
                   status, ev, started, lastStart, tests>>

NextRender == RenderStep \/ RenderAgain \/ Advance

SpecRender == InitRender /\ [][NextRender]_vars

\* ----------------------------------------------------------------- fan-out
\* one deployment (a single replica, MySQL store, suppression off) with no,
\* one or two of the four notifiers enabled
EnabledSets == {{}, {"feishu"}, Enabled}

InitFanout ==
    /\ InitCommon
    /\ dbType = "mysql"
    /\ cfg \in {[Config(FALSE, FALSE, 0) EXCEPT !.enabled = en] : en \in EnabledSets}
    /\ declared = MainRule({"logging"})
    /\ rule = Backfill(declared)
    /\ probe = NoProbe
    /\ replicas = {"A"}

SpecFanout == InitFanout /\ [][Next]_vars

\* ---------------------------------------------------------------- mentions
\* the levels an alert can carry: the documented ones and one written otherwise
AlertLevels == {"Critical", "High", "Medium", "Low", "Info", "warn"}

\* the mention settings of a chat adapter: at_all, the configured mobiles
\* (DingTalk, Feishu: at_mobiles; WeChat: mentioned_mobile_list) and the
\* configured user ids (WeChat: mentioned_list)
ChatConfigs ==
    [atAll : BOOLEAN, mobiles : {{}, {"m1"}}, users : {{}, {"u1"}}]

\* shouldAtUser, the same in the three adapters
shouldAtUser(level) == level \in {"Critical", "High"}

\* buildDingTalkMessage: text holds the mentions written into the markdown,
\* at is the "at" object of the message body, which is filled from the
\* configuration before the level is looked at
buildDingTalkMessage(level, c) ==
    [text |-> IF shouldAtUser(level)
              THEN IF c.atAll \/ c.mobiles = {} THEN {"all"} ELSE c.mobiles
              ELSE {},
     at   |-> [atMobiles |-> c.mobiles, isAtAll |-> c.atAll]]

\* buildWeChatMessage: the two lists are put into the body only when not empty
buildWeChatMessage(level, c) ==
    LET mentionedList == IF ~shouldAtUser(level) THEN {}
                         ELSE IF c.atAll THEN {"all"} ELSE c.users
        mentionedMobileList == IF ~shouldAtUser(level) \/ c.atAll THEN {}
                               ELSE c.mobiles
    IN [text |-> {},
        at   |-> [mentioned_list |-> mentionedList,
                  mentioned_mobile_list |-> mentionedMobileList]]

\* buildFeishuMessage: the <at> tags of the last card element; the card has
\* no other mention field
buildFeishuMessage(level, c) ==
    [text |-> IF ~shouldAtUser(level) THEN {}
              ELSE IF c.atAll THEN {"all"} ELSE c.mobiles,
     at   |-> [none |-> {}]]

\* an alert of any level and an adapter of any mention settings; the adapter's
\* Send builds the outgoing message
InitMention ==
    /\ InitCommon
    /\ dbType = "mysql"
    /\ cfg = Config(FALSE, FALSE, 0)
    /\ declared = MainRule({})
    /\ rule = Backfill(declared)
    /\ replicas = Rep
    /\ probe \in {[phase |-> "alert", level |-> lv, conf |-> c, adapter |-> "",
                    msg |-> [text |-> {}, at |-> [none |-> {}]]] :
                     lv \in AlertLevels, c \in ChatConfigs}

BuildMessage(adapter, msg) ==
    /\ probe.phase = "alert"
    /\ probe' = [probe EXCEPT !.phase = "built", !.adapter = adapter, !.msg = msg]
    /\ UNCHANGED <<now, advances, dbType, cfg, declared, rule, replicas,
                   storeUp, outages, proc, lockRow, dedupe, history, writeback,
                   status, ev, started, lastStart, tests>>

DingTalkBuild == BuildMessage("dingtalk", buildDingTalkMessage(probe.level, probe.conf))

WeChatBuild == BuildMessage("wechat", buildWeChatMessage(probe.level, probe.conf))

FeishuBuild == BuildMessage("feishu", buildFeishuMessage(probe.level, probe.conf))

NextMention == DingTalkBuild \/ WeChatBuild \/ FeishuBuild

SpecMention == InitMention /\ [][NextMention]_vars

\* ------------------------------------------------------------ query builder
\* a rule with any timeframe and query, a configured bufferTime; runRule
\* builds the trigger query at the time of each evaluation
InitQuery ==
    /\ InitCommon
    /\ dbType = "mysql"
    /\ cfg = Config(FALSE, FALSE, 0)
    /\ declared \in {[MainRule({"logging"}) EXCEPT !.timeframe = tf, !.query = q] :
                        tf \in {0, RunInterval, DefaultTimeframe}, q \in Queries}
    /\ rule = Backfill(declared)
    /\ replicas = Rep
    /\ probe \in {[phase |-> "query", bufferTime |-> b, built |-> FALSE,
                    at |-> ZeroTime,
                    query |-> [must |-> << >>, size |-> 0, sort |-> << >>]] :
                     b \in {0, DefaultTimeframe}}

BuildQuery ==
    /\ probe.phase = "query"
    /\ probe' = [probe EXCEPT !.built = TRUE, !.at = now,
                    !.query = BuildTimeRangeQuery(rule, probe.bufferTime, now)]
    /\ UNCHANGED <<now, advances, dbType, cfg, declared, rule, replicas,
                   storeUp, outages, proc, lockRow, dedupe, history, writeback,
                   status, ev, started, lastStart, tests>>

NextQuery == BuildQuery \/ Advance

SpecQuery == InitQuery /\ [][NextQuery]_vars

\* ------------------------------------------------------------------ leases
\* two replicas on either store, one notifier enabled
InitLease ==
    /\ InitCommon
    /\ dbType \in {"mysql", "sqlite"}
    /\ cfg = [Config(FALSE, FALSE, 0) EXCEPT !.enabled = {"email"}]
    /\ declared = MainRule({"logging"})
    /\ rule = Backfill(declared)
    /\ probe = NoProbe
    /\ replicas = Rep

SpecLease == InitLease /\ [][Next]_vars

\* ------------------------------------------------------ concurrency limit
\* one replica whose alert_engine.max_running_rules is 1 or the default
InitLimit ==
    /\ InitCommon
    /\ dbType = "mysql"
    /\ cfg \in {[Config(FALSE, FALSE, 0) EXCEPT !.enabled = {"email"},
                                                !.max_running_rules = m] :
                   m \in {1, DefaultMaxRunningRules}}
    /\ declared = MainRule({"logging"})
    /\ rule = Backfill(declared)
    /\ probe = NoProbe
    /\ replicas = {"A"}

SpecLimit == InitLimit /\ [][Next]_vars

\* ------------------------------------------------------------ status lock
\* The goroutines of runRule for one rule on replica A, step by step through
\* isSuppressed and updateAlertStatus under Engine.statusMutex.  probe holds
\* the mutex (the goroutines holding it for reading, the one holding it for
\* writing, 0 for none) and where each goroutine is.
InitStatus ==
    /\ InitCommon
    /\ dbType = "mysql"
    /\ cfg \in {Config(TRUE, TRUE, 0), Config(TRUE, FALSE, 0)}
    /\ declared = MainRule({})
    /\ rule = Backfill(declared)
    /\ replicas = {"A"}
    /\ probe = [phase |-> "mutex", readers |-> {}, writer |-> 0,
                at |-> [e \in Evals |-> "idle"], rounds |-> 0]

StatusFrame ==
    UNCHANGED <<now, advances, dbType, cfg, declared, rule, replicas, storeUp,
                outages, proc, lockRow, dedupe, history, writeback, ev, started,
                lastStart, tests>>

\* isSuppressed: statusMutex.RLock()
StatusRLock(e) ==
    /\ probe.phase = "mutex" /\ probe.at[e] = "idle"
    /\ probe.rounds < MaxRounds
    /\ probe.writer = 0
    /\ probe' = [probe EXCEPT !.readers = @ \cup {e}, !.at[e] = "read",
                              !.rounds = @ + 1]
    /\ UNCHANGED status
    /\ StatusFrame

\* isSuppressed: the reads of the entry and the comparison with the clock
StatusRead(e) ==
    /\ probe.phase = "mutex" /\ probe.at[e] = "read"
    /\ LET st == status["A"] IN
       probe' = [probe EXCEPT !.at[e] =
                    IF ~st.exists \/ ~st.suppressed THEN "free"
                    ELSE IF now > st.suppressUntil THEN "clear"
                    ELSE "held"]
    /\ UNCHANGED status
    /\ StatusFrame

\* isSuppressed: status.Suppressed = false
StatusClear(e) ==
    /\ probe.phase = "mutex" /\ probe.at[e] = "clear"
    /\ status' = [status EXCEPT !["A"].suppressed = FALSE]
    /\ probe' = [probe EXCEPT !.at[e] = "free"]
    /\ StatusFrame

\* isSuppressed: the deferred RUnlock; a suppressed evaluation returns, the
\* others go on to the search
StatusRUnlock(e) ==
    /\ probe.phase = "mutex" /\ probe.at[e] \in {"free", "held"}
    /\ probe' = [probe EXCEPT !.readers = @ \ {e},
                              !.at[e] = IF probe.at[e] = "free" THEN "eval"
                                        ELSE "idle"]
    /\ UNCHANGED status
    /\ StatusFrame

\* the evaluation ends without an emission
StatusSkip(e) ==
    /\ probe.phase = "mutex" /\ probe.at[e] = "eval"
    /\ probe' = [probe EXCEPT !.at[e] = "idle"]
    /\ UNCHANGED status
    /\ StatusFrame

\* updateAlertStatus: statusMutex.Lock()
StatusLock(e) ==
    /\ probe.phase = "mutex" /\ probe.at[e] = "eval"
    /\ probe.readers = {} /\ probe.writer = 0
    /\ probe' = [probe EXCEPT !.writer = e, !.at[e] = "update"]
    /\ UNCHANGED status
    /\ StatusFrame

\* updateAlertStatus: the writes of the entry
StatusUpdate(e) ==
    /\ probe.phase = "mutex" /\ probe.at[e] = "update"
    /\ status' = [status EXCEPT !["A"] =
                     updateAlertStatus(@, [NoAlert EXCEPT !.id = <<rule.id, now>>],
                                       cfg, now)]
    /\ probe' = [probe EXCEPT !.at[e] = "unlock"]
    /\ StatusFrame

\* updateAlertStatus: the deferred Unlock
StatusUnlock(e) ==
    /\ probe.phase = "mutex" /\ probe.at[e] = "unlock"
    /\ probe' = [probe EXCEPT !.writer = 0, !.at[e] = "idle"]
    /\ UNCHANGED status
    /\ StatusFrame

NextStatus ==
    \/ \E e \in Evals : StatusRLock(e)
    \/ \E e \in Evals : StatusRead(e)
    \/ \E e \in Evals : StatusClear(e)
    \/ \E e \in Evals : StatusRUnlock(e)
    \/ \E e \in Evals : StatusSkip(e)
    \/ \E e \in Evals : StatusLock(e)
    \/ \E e \in Evals : StatusUpdate(e)
    \/ \E e \in Evals : StatusUnlock(e)
    \/ Advance

SpecStatus == InitStatus /\ [][NextStatus]_vars

\* ------------------------------------------------------- send-time dedup
\* ShouldSendAndTouch as one call: placeholder INSERT (its error dropped),
\* SELECT, the TTL test, the UPDATE.  A failing SELECT or UPDATE returns
\* (false, err).
ShouldSendAndTouch(db, tbl, key, t, ttl, dbOk) ==
    LET placed   == DedupeInsertIgnore(db, tbl, key, t)
        lastSent == DedupeSelect(placed, key)
    IN  IF ~dbOk THEN [res |-> "err", tbl |-> tbl]
        ELSE IF WithinTTL(lastSent, t, ttl) THEN [res |-> "false", tbl |-> placed]
        ELSE [res |-> "true", tbl |-> DedupeTouch(placed, key, t)]

\* ttlSeconds arguments: non-positive, below, at and above the column default
DedupeTTLs == {0 - 1, 0, LeaseTTL, RunInterval, DedupeTTL, DedupeTTL + RunInterval}

\* two dedupe keys: one rule and level, two messages
DedupeKeys == {<<"r", "High", "m1">>, <<"r", "High", "m2">>}

NoCall == [key |-> << >>, at |-> ZeroTime, res |-> "", before |-> ZeroTime,
           hadRow |-> FALSE, prevTrue |-> ZeroTime]

InitDedupe ==
    /\ InitCommon
    /\ dbType \in {"mysql", "sqlite"}
    /\ cfg = Config(FALSE, FALSE, 0)
    /\ declared = MainRule({})
    /\ rule = Backfill(declared)
    /\ replicas = Rep
    /\ probe \in {[phase |-> "dedupe", ttl |-> ttl, calls |-> 0, last |-> NoCall,
                    sent |-> [k \in DedupeKeys |-> ZeroTime]] : ttl \in DedupeTTLs}

\* one call of ShouldSendAndTouch; probe.last records the call, the row it
\* found and what it returned, probe.sent the latest call per key that
\* returned true
DedupeCall(key, dbOk) ==
    /\ probe.phase = "dedupe"
    /\ probe.calls < MaxCalls
    /\ LET out == ShouldSendAndTouch(dbType, dedupe, key, now, probe.ttl, dbOk) IN
       /\ dedupe' = out.tbl
       /\ probe' = [probe EXCEPT
                       !.calls = @ + 1,
                       !.last = [key |-> key, at |-> now, res |-> out.res,
                                 before |-> DedupeSelect(dedupe, key),
                                 hadRow |-> key \in DOMAIN dedupe,
                                 prevTrue |-> probe.sent[key]],
                       !.sent = IF out.res = "true" THEN [@ EXCEPT ![key] = now]
                                ELSE @]
    /\ UNCHANGED <<now, advances, dbType, cfg, declared, rule, replicas,
                   storeUp, outages, proc, lockRow, history, writeback, status,
                   ev, started, lastStart, tests>>

DedupeStep == \E key \in DedupeKeys, dbOk \in BOOLEAN : DedupeCall(key, dbOk)

NextDedupe == DedupeStep \/ Advance

SpecDedupe == InitDedupe /\ [][NextDedupe]_vars

\* ----------------------------------------------------------- suppression
\* one process (a single replica) with suppression off, or on in the
\* fixed-window mode or in the count-scaled mode; hours is a signed int of the
\* configuration file that nothing validates
InitSuppress ==
    /\ InitCommon
    /\ dbType \in {"mysql", "sqlite"}
    /\ cfg \in {Config(TRUE, ex, h) : ex \in BOOLEAN,
                                         h \in (0 - MaxExpHours)..MaxExpHours}
              \cup {Config(FALSE, FALSE, 0)}
    /\ declared = MainRule({})
    /\ rule = Backfill(declared)
    /\ probe = NoProbe
    /\ replicas = {"A"}

SpecSuppress == InitSuppress /\ [][Next]_vars

\* ------------------------------------------------------------- shutdown
\* main of replica r receives SIGINT/SIGTERM and calls Engine.Stop, which
\* stops the cron driver (the Context cron.Stop returns is dropped)
Stop(r) ==
    /\ r \in replicas
    /\ proc[r] = "running"
    /\ proc' = [proc EXCEPT ![r] = "stopped"]
    /\ UNCHANGED <<now, advances, dbType, cfg, declared, rule, probe, replicas,
                   storeUp, outages, lockRow, dedupe, history, writeback,
                   status, ev, started, lastStart, tests>>

\* main of replica r returns after Stop: the process ends and with it every
\* goroutine of runRule that has not returned
Exit(r) ==
    /\ proc[r] = "stopped"
    /\ proc' = [proc EXCEPT ![r] = "exited"]
    /\ ev' = [e \in Evals |->
                IF ev[e].rep = r /\ ev[e].pc \notin {"idle", "done"}
                THEN [ev[e] EXCEPT !.pc = "killed"]
                ELSE ev[e]]
    /\ UNCHANGED <<now, advances, dbType, cfg, declared, rule, probe, replicas,
                   storeUp, outages, lockRow, dedupe, history, writeback,
                   status, started, lastStart, tests>>

\* one deployment (two replicas, MySQL store, suppression off) whose
\* processes are shut down by a signal
InitStop ==
    /\ InitCommon
    /\ dbType = "mysql"
    /\ cfg = Config(FALSE, FALSE, 0)
    /\ declared = MainRule({"logging"})
    /\ rule = Backfill(declared)
    /\ probe = NoProbe
    /\ replicas = Rep

NextStop == Next \/ \E r \in Rep : Stop(r) \/ Exit(r)

SpecStop == InitStop /\ [][NextStop]_vars

\* ------------------------------------------------ state store outages
\* the state store becomes unreachable, and reachable again; while it is
\* unreachable every Exec / QueryRow of the engine returns an error
StoreDown ==
    /\ storeUp
    /\ outages < MaxOutages
    /\ storeUp' = FALSE
    /\ outages' = outages + 1
    /\ UNCHANGED <<now, advances, dbType, cfg, declared, rule, probe, replicas,
                   proc, lockRow, dedupe, history, writeback, status, ev, started,
                   lastStart, tests>>

StoreBack ==
    /\ ~storeUp
    /\ storeUp' = TRUE
    /\ UNCHANGED <<now, advances, dbType, cfg, declared, rule, probe, replicas,
                   outages, proc, lockRow, dedupe, history, writeback, status, ev,
                   started, lastStart, tests>>

\* one deployment (two replicas, MySQL store, suppression off) whose state
\* store goes away and comes back
InitOutage ==
    /\ InitCommon
    /\ dbType = "mysql"
    /\ cfg = Config(FALSE, FALSE, 0)
    /\ declared = MainRule({"logging"})
    /\ rule = Backfill(declared)
    /\ probe = NoProbe
    /\ replicas = Rep

NextOutage == Next \/ StoreDown \/ StoreBack

SpecOutage == InitOutage /\ [][NextOutage]_vars

\* ------------------------------------------- loading and trigger predicate
\* config.LoadRules has returned a rule of any type and threshold; main
\* backfills it (LoadStep), and an evaluation whose search reports n matching
\* documents applies shouldTriggerAlert to it (EvalStep)
InitTrig ==
    /\ InitCommon
    /\ dbType = "mysql"
    /\ cfg = Config(FALSE, FALSE, 0)
    /\ declared \in {[MainRule({}) EXCEPT !.type = ty, !.threshold = th] :
                        ty \in RuleTypes, th \in 0..MaxThreshold}
    /\ rule = declared
    /\ replicas = Rep
    /\ probe \in {[phase |-> "declared", n |-> n, fired |-> FALSE] :
                     n \in 0..(MaxThreshold + 1)}

LoadStep ==
    /\ probe.phase = "declared"
    /\ rule' = Backfill(declared)
    /\ probe' = [probe EXCEPT !.phase = "loaded"]
    /\ UNCHANGED <<now, advances, dbType, cfg, declared, replicas, storeUp,
                   outages, proc, lockRow, dedupe, history, writeback, status, ev,
                   started, lastStart, tests>>

EvalStep ==
    /\ probe.phase = "loaded"
    /\ probe' = [probe EXCEPT !.phase = "evaluated",
                    !.fired = shouldTriggerAlert(rule, [total |-> probe.n,
                                                        hits |-> Min(probe.n, QuerySize)])]
    /\ UNCHANGED <<now, advances, dbType, cfg, declared, rule, replicas,
                   storeUp, outages, proc, lockRow, dedupe, history, writeback,
                   status, ev, started, lastStart, tests>>

NextTrig == LoadStep \/ EvalStep

SpecTrig == InitTrig /\ [][NextTrig]_vars

\* shouldTriggerAlert as a function: it is applied (EvalStep) to a rule of any
\* type and any threshold, negative and zero included, and a response of any
\* total
InitPred ==
    /\ InitCommon
    /\ dbType = "mysql"
    /\ cfg = Config(FALSE, FALSE, 0)
    /\ declared \in {[MainRule({}) EXCEPT !.type = ty, !.threshold = th] :
                        ty \in RuleTypes, th \in (0 - MaxThreshold)..MaxThreshold}
    /\ rule = declared
    /\ replicas = Rep
    /\ probe \in {[phase |-> "loaded", n |-> n, fired |-> FALSE] :
                     n \in 0..(MaxThreshold + 1)}

NextPred == EvalStep

SpecPred == InitPred /\ [][NextPred]_vars

\* ================================================================ properties
Abs(x) == IF x < 0 THEN -x ELSE x

\* the evaluation is past lease acquisition and has not yet released the lease
Holding(e) == ev[e].lock = "held" /\ ev[e].pc # "done"

\* the two evaluations belong to different replicas and attempted the lease
\* within one lease TTL of each other (the same tick)
SameTick(d, e) ==
    /\ d # e
    /\ ev[d].pc # "idle" /\ ev[e].pc # "idle"
    /\ ev[d].rep # ev[e].rep
    /\ Abs(ev[d].attemptAt - ev[e].attemptAt) < LeaseTTL

\* every statement the evaluation has sent to the store was answered
StoreAnswered(e) ==
    /\ ev[e].lock # "err" /\ ~ev[e].insErr
    /\ ev[e].send # "err" /\ ev[e].saved # "err"

\* the engine's rows of alert_history
EngineRows == {h \in history : h.src = "engine"}

\* C1: at every instant at most one evaluation of the rule, over all
\* replicas, is past lease acquisition and has not yet released the lease,
\* however long the evaluation takes.
C1_OneHolderAcrossReplicas ==
    \A d, e \in Evals :
        (Holding(d) /\ Holding(e) /\ ev[d].rep # ev[e].rep) => d = e

\* C2: of two calls of ShouldSendAndTouch with the same rule name, level and
\* message made within the TTL of each other, at most one returns true
\* (stated for calls whose statements were all answered by the store).
C2_AtMostOneSendPerKey ==
    \A d, e \in Evals :
        ( /\ d # e
          /\ StoreAnswered(d) /\ StoreAnswered(e)
          /\ ev[d].send = "true" /\ ev[e].send = "true"
          /\ DedupeKey(ev[d].alert) = DedupeKey(ev[e].alert)
          /\ Abs(ev[d].alert.id[2] - ev[e].alert.id[2]) < EffectiveTTL(DedupeTTL) )
        => FALSE

\* C3: when two replicas attempt the lease of the rule for the same tick and
\* the store answers both, exactly one of them acquires it, also when the
\* first has released before the second attempts.
C3_ExactlyOneAcquiresPerTick ==
    \A d, e \in Evals :
        ( /\ SameTick(d, e)
          /\ ev[d].lock \in {"held", "denied"}
          /\ ev[e].lock \in {"held", "denied"} )
        => (ev[d].lock = "held") # (ev[e].lock = "held")

\* C4: when two replicas evaluate the rule on the same tick, every search
\* returns the same tripping response and no statement fails, then once both
\* have returned there is exactly one history row and exactly one fan-out.
C4_OneRowOneFanoutPerTick ==
    \A d, e \in Evals :
        ( /\ SameTick(d, e)
          /\ ev[d].pc = "done" /\ ev[e].pc = "done"
          /\ \A x \in {d, e} :
                /\ StoreAnswered(x)
                /\ ev[x].resp # ErrResp
                /\ ev[x].resp # NoResp => shouldTriggerAlert(rule, ev[x].resp)
          /\ \A x, y \in {d, e} :
                (ev[x].resp # NoResp /\ ev[y].resp # NoResp) => ev[x].resp = ev[y].resp )
        => /\ Cardinality(EngineRows) = 1
           /\ Cardinality({x \in {d, e} : ev[x].send = "true"}) = 1

\* C5: with suppression off, when the rule was evaluated and emitted, and is
\* evaluated again within the dedup TTL with the same response (the store
\* answering every statement), the dedup check of the second evaluation
\* returns false, whatever the template.
C5_ReevaluationIsDeduplicated ==
    \A d, e \in Evals :
        ( /\ ~cfg.suppress
          /\ d \in ev[e].pred
          /\ StoreAnswered(d) /\ StoreAnswered(e)
          /\ ev[d].send = "true"
          /\ ev[e].send \in {"true", "false"}
          /\ ev[e].resp = ev[d].resp
          /\ ev[e].alert.id[2] - ev[d].alert.id[2] < EffectiveTTL(DedupeTTL) )
        => ev[e].send = "false"

\* ---------------------------------------------------------------------------
\* C6: every evaluation that acquired the lease has called ReleaseRuleLock
\* with its own instance id by the time it returns, whichever way it returns.
C6_ReleasedOnEveryExit ==
    \A e \in Evals :
        (ev[e].pc = "done" /\ ev[e].lock = "held")
        => ev[e].released = getInstanceID(ev[e].rep)

\* the exit paths of an evaluation that held the lease
ExitPath(e) ==
    IF ev[e].pc # "done" \/ ev[e].lock # "held" THEN "none"
    ELSE IF ev[e].resp = NoResp THEN "suppressed"
    ELSE IF ev[e].resp = ErrResp THEN "searchError"
    ELSE IF ev[e].alert = NoAlert THEN "notTripped"
    ELSE IF ev[e].send = "false" THEN "dedupHit"
    ELSE IF ev[e].send = "err" THEN "dedupError"
    ELSE "emitted"

\* one evaluation emitted and released, the next one of the same replica was
\* suppressed and released
C6_Witness ==
    \E d, e \in Evals :
        /\ ExitPath(d) = "emitted" /\ ev[d].released = getInstanceID(ev[d].rep)
        /\ ExitPath(e) = "suppressed" /\ ev[e].released = getInstanceID(ev[e].rep)

\* ---------------------------------------------------------------------------
\* C7: for a frequency rule with declared threshold T (T = 0 included) and a
\* response with n hits the engine fires iff n >= T; for type any iff n > 0;
\* for type flatline iff n < T.
C7_FiresIffDeclaredPredicate ==
    probe.phase = "evaluated" =>
        CASE declared.type = "frequency" -> probe.fired <=> (probe.n >= declared.threshold)
          [] declared.type = "any"       -> probe.fired <=> (probe.n > 0)
          [] declared.type = "flatline"  -> probe.fired <=> (probe.n < declared.threshold)
          [] OTHER                       -> TRUE

\* ---------------------------------------------------------------------------
\* the history row is the one of alert a
RowOf(h, a) ==
    /\ h.alert_id = a.id /\ h.rule_name = a.rule_name /\ h.level = a.level
    /\ h.message = a.message /\ h.count = a.count /\ h.matches = a.matches

\* C8 (as claimed): every row of alert_history is the row of an alert for
\* which ShouldSendAndTouch returned true.
C8_EveryRowPassedDedup ==
    \A h \in history :
        \E e \in Evals : ev[e].send = "true" /\ RowOf(h, ev[e].alert)

\* C8 (amended): every row of alert_history written by the rule engine is
\* the row of an alert for which ShouldSendAndTouch returned true; the web
\* server's test notification writes its row without a dedup check.
C8_EngineRowsPassedDedup ==
    \A h \in EngineRows :
        ev[h.eval].send = "true" /\ RowOf(h, ev[h.eval].alert)

\* an engine row and a test notification row are both in the table
C8_Witness ==
    /\ \E h \in EngineRows : ev[h.eval].send = "true"
    /\ \E h \in history : h.src = "web"

\* ---------------------------------------------------------------------------
\* the alert of evaluation e passed dedup and the evaluation has returned
Emitted(e) == ev[e].pc = "done" /\ ev[e].send = "true"

\* C9 (as claimed): for every alert that passed dedup and went to the
\* fan-out, its history row exists once the evaluation has finished.
C9_RowForEveryEmission ==
    \A e \in Evals :
        Emitted(e) => \E h \in history : RowOf(h, ev[e].alert)

\* C9 (amended): for every alert that passed dedup and went to the fan-out,
\* SaveAlert has been called once the evaluation has finished, and the row
\* exists unless the INSERT failed (the failure is only logged).
C9_RowUnlessInsertFailed ==
    \A e \in Evals :
        Emitted(e) =>
            /\ ev[e].saved \in {"ok", "err"}
            /\ ev[e].saved = "ok" =>
                   \E h \in history : RowOf(h, ev[e].alert) /\ h.eval = e

\* an emission whose row is there, and one whose INSERT failed
C9_Witness ==
    \E d, e \in Evals :
        /\ Emitted(d) /\ ev[d].saved = "ok"
        /\ Emitted(e) /\ ev[e].saved = "err"
        /\ ~ \E h \in history : h.eval = e

\* ---------------------------------------------------------------------------
\* SendAlert of evaluation e has returned after some notifier's send failed
SendFailed(e) == ev[e].sendErr /\ ev[e].sendRet # "none"

\* a step of evaluation e after its dedup check
StepAfterDedupe(e) ==
    /\ ev[e].pc \in {"send", "save", "record", "release"}
    /\ ev'[e] # ev[e]

\* C10: when sends of enabled notifiers return errors, SendAlert still returns
\* nil, the send of every enabled notifier has been invoked, SaveAlert is
\* still called (the row is there when its INSERT is answered), and no step
\* of the evaluation after the dedup check changes alert_dedupe.
C10_NotifierErrorsAreNonFatal ==
    /\ [](\A e \in Evals :
            SendFailed(e) =>
                /\ ev[e].sendRet = "nil"
                /\ ev[e].invoked = cfg.enabled
                /\ ev[e].pc \in {"save", "record", "release", "done"}
                /\ ev[e].pc # "save" =>
                      /\ ev[e].saved \in {"ok", "err"}
                      /\ ev[e].saved = "ok" =>
                             \E h \in history : RowOf(h, ev[e].alert) /\ h.eval = e)
    /\ [][\A e \in Evals : StepAfterDedupe(e) => dedupe' = dedupe]_vars

\* a send failed, SendAlert returned, the row is written and the
\* dedup key is at the value the check set
C10_Witness ==
    \E e \in Evals :
        /\ SendFailed(e) /\ ev[e].pc = "done" /\ ev[e].saved = "ok"
        /\ \E h \in history : RowOf(h, ev[e].alert) /\ h.eval = e
        /\ DedupeKey(ev[e].alert) \in DOMAIN dedupe
        /\ dedupe[DedupeKey(ev[e].alert)] = ev[e].alert.id[2]

StepEmits(e) ==
    \/ ev[e].pc = "search" /\ ev'[e].pc # "search"
    \/ ev'[e].invoked # ev[e].invoked
    \/ ev[e].pc = "record" /\ writeback' # writeback

\* C12 (as claimed): while the state store is unavailable no evaluation
\* performs a search, a notifier fan-out, a history insert or a writeback.
C12_NothingRunsDuringOutage ==
    [][~storeUp => /\ \A e \in Evals : ~StepEmits(e)
                   /\ history' = history]_vars

\* evaluation e did nothing beyond the failed lease acquisition
EndedAtStepOne(e) ==
    /\ ev[e].pc = "done" /\ ev[e].released = ""
    /\ ev[e].resp = NoResp /\ ev[e].alert = NoAlert
    /\ ev[e].send = "none" /\ ev[e].invoked = {} /\ ev[e].sendRet = "none"
    /\ ev[e].saved = "none"
    /\ ~ \E h \in EngineRows : h.eval = e
    /\ \A k \in DOMAIN writeback : writeback[k] # e

\* C12 (amended): an evaluation that begins while the state store is
\* unavailable fails its lease acquisition and ends at step 1 without search,
\* fan-out, history insert or writeback, and nothing is written to the store
\* during the outage; evaluations that held the lease when the outage began
\* go on (search, and past the dedup check fan-out and writeback).
C12_OutageEndsEvaluationAtStepOne ==
    /\ [](\A e \in Evals : ev[e].lock = "err" => EndedAtStepOne(e))
    /\ [][~storeUp =>
            /\ \A e \in Evals :
                  (ev[e].pc = "idle" /\ ev'[e].pc # "idle") => ev'[e].lock = "err"
            /\ history' = history /\ dedupe' = dedupe /\ lockRow' = lockRow]_vars

\* the store is away, one evaluation has ended at step 1 for it, and another,
\* which held the lease before, has sent and written back during the outage
C12_Witness ==
    /\ ~storeUp
    /\ \E d, e \in Evals :
          /\ ev[e].lock = "err" /\ EndedAtStepOne(e)
          /\ ev[d].lock = "held" /\ ev[d].saved = "err"
          /\ \E k \in DOMAIN writeback : writeback[k] = d

\* ---------------------------------------------------------------------------
\* the cron driver of replica r is due and an evaluation can still begin
TickDue(r) ==
    /\ r \in replicas
    /\ started < Cardinality(Evals)
    /\ started = 0 => r = "A"
    /\ now >= lastStart[r] + RunInterval

\* C13: an evaluation whose search fails emits nothing (no dedup statement,
\* no send, no history row, no writeback, no update of the suppression
\* status), releases its lease when it returns, and does not keep a later
\* tick from evaluating the rule.
C13_SearchErrorSkipsEvaluation ==
    /\ \A e \in Evals :
          ev[e].resp = ErrResp =>
              /\ ev[e].pc \in {"release", "done"}
              /\ ev[e].pc = "done" => ev[e].released = getInstanceID(ev[e].rep)
              /\ ev[e].alert = NoAlert
              /\ ev[e].send = "none" /\ ~ev[e].insErr
              /\ ev[e].invoked = {} /\ ev[e].sendRet = "none"
              /\ ev[e].saved = "none"
              /\ ~ \E h \in EngineRows : h.eval = e
              /\ \A k \in DOMAIN writeback : writeback[k] # e
    /\ \A r \in Rep :
          status[r].alertCount =
              Cardinality({e \in Evals : ev[e].rep = r /\ ev[e].saved # "none"})
    /\ \A r \in Rep :
          TickDue(r) => ENABLED (\E e \in Evals, dbOk \in BOOLEAN : Start(e, r, dbOk))

\* the search of one evaluation failed and it released the lease; the next
\* tick of the same replica evaluated the rule and emitted
C13_Witness ==
    \E d, e \in Evals :
        /\ ev[d].resp = ErrResp /\ ev[d].pc = "done"
        /\ ev[d].released = getInstanceID(ev[d].rep)
        /\ d \in ev[e].pred /\ ev[e].rep = ev[d].rep
        /\ ev[e].send = "true" /\ ev[e].saved = "ok"

\* ---------------------------------------------------------------------------
\* C14: after Stop has returned no new evaluation begins, and every
\* evaluation in flight at that moment runs to completion, lease release
\* included, also when main returns right after Stop.
C14_StopDrainsEvaluations ==
    /\ [](\A e \in Evals :
            /\ ev[e].pc # "killed"
            /\ (ev[e].pc # "idle" /\ proc[ev[e].rep] = "exited") =>
                   /\ ev[e].pc = "done"
                   /\ ev[e].lock = "held" => ev[e].released = getInstanceID(ev[e].rep))
    /\ [][\A e \in Evals :
            (ev[e].pc = "idle" /\ ev'[e].pc # "idle") => proc[ev'[e].rep] = "running"]_vars

\* ---------------------------------------------------------------------------
\* C15: within one process lifetime the suppressUntil of the rule never
\* decreases, over any sequence of evaluations, overlapping ones included, in
\* the fixed-window mode and in the count-scaled mode.
C15_SuppressUntilNeverDecreases ==
    [][\A r \in Rep : status'[r].suppressUntil >= status[r].suppressUntil]_vars

\* C15, as the code has it: suppressUntil never decreases, over any sequence
\* of evaluations, overlapping ones included, in the fixed-window mode, and in
\* the count-scaled mode when the configured hours are not negative.
C15_NeverDecreasesForNonNegativeHours ==
    [][(cfg.exponential => cfg.hours >= 0)
        => \A r \in Rep : status'[r].suppressUntil >= status[r].suppressUntil]_vars

\* two evaluations of the replica overlapped and both updated the status in
\* the count-scaled mode
C15_Witness ==
    /\ cfg.exponential /\ cfg.hours > 0
    /\ status["A"].alertCount = 2
    /\ status["A"].suppressUntil > now + cfg.hours * 3600
    /\ \A e \in Evals : ev[e].rep = "A" /\ ev[e].saved # "none" /\ ev[e].pred = {}

\* ---------------------------------------------------------------------------
\* the ordered pattern list: a pattern is a set of alternatives, each a set of
\* words the lower-cased name must all contain
LevelPatterns ==
    << [alts |-> {{"zh_syscomponent", "zh_error"}},   level |-> "Critical"],
       [alts |-> {{"zh_security"}},                   level |-> "Critical"],
       [alts |-> {{"fatal"}, {"panic"}},              level |-> "Critical"],
       [alts |-> {{"zh_error"}},                      level |-> "High"],
       [alts |-> {{"zh_syscomponent", "zh_warning"}}, level |-> "High"],
       [alts |-> {{"zh_warning"}},                    level |-> "Medium"],
       [alts |-> {{}},                                level |-> "Low"] >>

Matches(name, i) == \E alt \in LevelPatterns[i].alts : alt \subseteq ToLower(name)

FirstMatch(name) ==
    CHOOSE i \in 1..Len(LevelPatterns) :
        /\ Matches(name, i)
        /\ \A j \in 1..(i - 1) : ~Matches(name, j)

\* C16: level resolution returns rule.level verbatim when it is set; otherwise
\* it returns the level of the first pattern of the ordered list that the
\* lower-cased rule name matches (system component and error -> Critical,
\* security -> Critical, fatal or panic -> Critical, error -> High, system
\* component and warning -> High, warning -> Medium, otherwise Low), the words
\* being those of the code's language; the result is never empty.
C16_LevelIsFirstMatchingPattern ==
    probe.phase = "resolved" =>
        /\ probe.level # ""
        /\ rule.level # "" => probe.level = rule.level
        /\ rule.level = "" =>
               probe.level = LevelPatterns[FirstMatch(rule.name)].level

\* a rule without level whose name has the system-component word, the warning
\* word and an upper-case FATAL has been resolved by the third pattern
C16_Witness ==
    /\ probe.phase = "resolved"
    /\ rule.level = ""
    /\ rule.name = {"zh_syscomponent", "zh_warning", "FATAL"}
    /\ probe.level = "Critical"

\* C17: a rule with no level set whose name contains "error" (as "app-errors"
\* does) and none of the Critical patterns resolves to "High".
C17_ErrorNameIsHigh ==
    (/\ probe.phase = "resolved"
     /\ rule.level = ""
     /\ "error" \in ToLower(rule.name)
     /\ \A i \in 1..3 : ~Matches(rule.name, i))
        => probe.level = "High"

\* the rule "app-errors" has been resolved
C17_Witness ==
    /\ probe.phase = "resolved"
    /\ rule.level = ""
    /\ rule.name = {"error"}

C19_SentOnlyThroughNamedChannels ==
    \A e \in Evals :
        /\ rule.alert # {} => ev[e].invoked \subseteq rule.alert
        /\ (ev[e].invoked = cfg.enabled /\ ~(cfg.enabled \subseteq rule.alert))
               => rule.alert = {}

\* the alert of a rule that names email only has been sent through wechat
C19_Witness ==
    /\ rule.alert = {"email"}
    /\ \E e \in Evals : "wechat" \in ev[e].invoked

\* ---------------------------------------------------------------------------
\* C20: the engine never starts an evaluation (lease acquisition, search) of a
\* rule whose enabled flag is false, whatever the rule file said at startup
\* and also after the rule has been disabled through the rule-disable
\* operation while the engine is running.
C20_DisabledRuleIsNeverEvaluated ==
    [][started' > started => (rule.enabled /\ declared.enabled)]_vars

\* the rule file says disabled and an evaluation of the rule, begun after the
\* first tick, is past its search
C20_Witness ==
    /\ ~declared.enabled
    /\ \E e \in Evals : ev[e].pc = "dedupInsert" /\ ev[e].attemptAt = now /\ started = 1
    /\ now > 0

\* ---------------------------------------------------------------------------
\* the built message mentions somebody: in its text, or through a field of
\* the body that makes the chat service mention (DingTalk: isAtAll; WeChat:
\* a non-empty mentioned_list or mentioned_mobile_list)
Mentions(adapter, msg) ==
    \/ msg.text # {}
    \/ adapter = "dingtalk" /\ msg.at.isAtAll
    \/ adapter = "wechat" /\ (msg.at.mentioned_list # {} \/ msg.at.mentioned_mobile_list # {})

\* C21: for every chat adapter and every alert whose level is not Critical or
\* High, the built message carries no mention at all, neither in its text nor
\* in a mention field.
C21_NoMentionBelowHigh ==
    (probe.phase = "built" /\ probe.level \notin {"Critical", "High"})
        => ~Mentions(probe.adapter, probe.msg)

\* the DingTalk message of a Low alert has been built by an adapter configured
\* to mention everybody
C21_Witness ==
    /\ probe.phase = "built"
    /\ probe.adapter = "dingtalk"
    /\ probe.level = "Low"
    /\ probe.conf.atAll
    /\ probe.msg.text = {}
    /\ probe.msg.at.isAtAll

\* ---------------------------------------------------------------------------
\* C22: SendAlert invokes send exactly once on every enabled adapter and never
\* on a disabled one, the sends are in flight together, and SendAlert returns
\* only after every send it started has returned.
C22_OneSendPerEnabledAdapter ==
    /\ [](\A e \in Evals :
            /\ ev[e].pending \cup ev[e].invoked \subseteq cfg.enabled
            /\ ev[e].pending \cap ev[e].invoked = {}
            /\ ev[e].pc = "send" => ev[e].pending \cup ev[e].invoked = cfg.enabled
            /\ ev[e].sendRet # "none" =>
                   ev[e].pending = {} /\ ev[e].invoked = cfg.enabled)
    /\ [][\A e \in Evals :
            /\ ev'[e].invoked # ev[e].invoked =>
                   \E c \in ev[e].pending :
                       /\ ev'[e].invoked = ev[e].invoked \cup {c}
                       /\ ev'[e].pending = ev[e].pending \ {c}
            /\ (ev[e].pc = "send" /\ ev'[e].pc # "send") => ev[e].pending = {}]_vars

\* two sends of one SendAlert are in flight together, and another SendAlert
\* has returned after both of its sends
C22_Witness ==
    /\ cfg.enabled = Enabled
    /\ \E e \in Evals : ev[e].pc = "send" /\ ev[e].pending = Enabled
    /\ \E e \in Evals : ev[e].sendRet = "nil" /\ ev[e].invoked = Enabled

\* ---------------------------------------------------------------------------
\* C23: while the engine is running, every tick of the driver launches one
\* evaluation of the loaded rule, whatever errors earlier evaluations ran into
\* and however long they take: at every due tick the launch is possible, and
\* a launch begins exactly one evaluation, at the tick, a full interval after
\* the previous launch of the replica.
C23_DriverKeepsTicking ==
    /\ [](\A r \in Rep :
            (TickDue(r) /\ proc[r] = "running" /\ rule.loaded)
                => ENABLED (\E dbOk \in BOOLEAN : Start(started + 1, r, dbOk)))
    /\ [][\A r \in Rep :
            lastStart'[r] # lastStart[r] =>
                /\ started' = started + 1
                /\ ev'[started'].rep = r /\ ev'[started'].attemptAt = now
                /\ ev'[started'].pc # "idle"
                /\ lastStart'[r] = now
                /\ now >= lastStart[r] + RunInterval
                /\ \A d \in Evals \ {started'} : ev'[d] = ev[d]]_vars

\* in a run in which the store went away, the second tick of a replica has
\* launched an evaluation while the first one is still waiting for its
\* notifiers
C23_Witness ==
    /\ \E d, e \in Evals :
          /\ ev[d].rep = ev[e].rep /\ ev[d].attemptAt < ev[e].attemptAt
          /\ ev[d].pc = "send" /\ ev[e].pc # "idle"
    /\ outages > 0

\* ---------------------------------------------------------------------------
\* C24: shouldTriggerAlert(rule, response) with n = hits.total.value returns
\* n >= threshold for type frequency, n > 0 for any, n >= threshold for spike,
\* n < threshold for flatline, n > 0 for change and n >= threshold for every
\* other type, for all n >= 0 and all thresholds of the rule it is given.
C24_TriggerPredicateByType ==
    probe.phase = "evaluated" =>
        LET n == probe.n
            T == rule.threshold
        IN  /\ rule.type = "frequency" => (probe.fired <=> n >= T)
            /\ rule.type = "any"       => (probe.fired <=> n > 0)
            /\ rule.type = "spike"     => (probe.fired <=> n >= T)
            /\ rule.type = "flatline"  => (probe.fired <=> n < T)
            /\ rule.type = "change"    => (probe.fired <=> n > 0)
            /\ rule.type \notin {"frequency", "any", "spike", "flatline", "change"}
                   => (probe.fired <=> n >= T)

\* a flatline rule has been evaluated on a response whose total equals its
\* threshold and has not fired
C24_Witness ==
    /\ probe.phase = "evaluated"
    /\ rule.type = "flatline"
    /\ rule.threshold > 0
    /\ probe.n = rule.threshold
    /\ ~probe.fired

\* ---------------------------------------------------------------------------
\* evaluation e begins in this step and acquires the lease
BeginsHolding(e) ==
    ev[e].pc = "idle" /\ ev'[e].pc # "idle" /\ ev'[e].lock = "held"

\* C25: in the suppression check of an evaluation that holds the lease, if
\* suppressed is true and now < suppressUntil the evaluation returns without a
\* search; if now >= suppressUntil, the instant now = suppressUntil included,
\* suppressed is cleared and the evaluation goes on to the search.
C25_SuppressionEndsAtSuppressUntil ==
    [][\A e \in Evals :
          BeginsHolding(e) =>
              LET r  == ev'[e].rep
                  st == status[r]
              IN  /\ (st.suppressed /\ now < st.suppressUntil) =>
                         (ev'[e].pc = "release" /\ status'[r].suppressed)
                  /\ (st.suppressed /\ now >= st.suppressUntil) =>
                         (ev'[e].pc = "search" /\ ~status'[r].suppressed)]_vars

\* an evaluation that began at the very instant suppressUntil has returned
\* without a search, and the rule is still marked suppressed
C25_Witness ==
    \E e \in Evals :
        /\ ev[e].lock = "held" /\ ev[e].pc \in {"release", "done"}
        /\ ev[e].resp = NoResp
        /\ status[ev[e].rep].suppressed
        /\ ev[e].attemptAt = status[ev[e].rep].suppressUntil
        /\ now = ev[e].attemptAt

\* ---------------------------------------------------------------------------
\* the status of the replica of evaluation e is updated in this step
UpdatesStatus(e) == ev[e].pc = "save" /\ ev'[e].pc # "save"

\* C26: after each emission alertCount is incremented by exactly 1 and
\* lastAlert is set; with suppression enabled suppressed becomes true and
\* suppressUntil = now + W, W being realertMinutes minutes with the
\* exponential option off and exponentialHours * alertCount hours (the count
\* after the increment) with it on; with suppression disabled suppressed and
\* suppressUntil are left unchanged.  No other step changes the status count.
C26_StatusAfterEmission ==
    [][/\ \A e \in Evals :
            UpdatesStatus(e) =>
                LET old == status[ev[e].rep]
                    new == status'[ev[e].rep]
                    W   == IF cfg.exponential
                           THEN cfg.hours * 3600 * (old.alertCount + 1)
                           ELSE RealertMinutes * 60
                IN  /\ new.alertCount = old.alertCount + 1
                    /\ new.exists /\ new.lastAlert = ev[e].alert.id[2]
                    /\ cfg.suppress => (new.suppressed /\ new.suppressUntil = now + W)
                    /\ ~cfg.suppress => (/\ new.suppressed = old.suppressed
                                         /\ new.suppressUntil = old.suppressUntil)
       /\ (\A e \in Evals : ~UpdatesStatus(e)) =>
              \A r \in Rep : status'[r].alertCount = status[r].alertCount]_vars

\* the second emission of the process has just updated the status in the
\* count-scaled mode: the window is twice the configured hours
C26_Witness ==
    /\ cfg.suppress /\ cfg.exponential /\ cfg.hours > 0
    /\ status["A"].alertCount = 2
    /\ status["A"].suppressUntil = now + 2 * cfg.hours * 3600
    /\ \E e \in Evals : ev[e].pc = "record" /\ status["A"].lastAlert = ev[e].alert.id[2]

\* ---------------------------------------------------------------------------
\* the writeback index call of evaluation e has been made (with or without
\* success)
WritebackCalled(e) == ev[e].saved # "none" /\ ev[e].pc \in {"release", "done"}

\* the in-memory status has been updated by evaluation e
StatusUpdated(e) == ev[e].saved # "none"

\* C27: within one evaluation that emits, the steps happen in the order lease
\* acquisition, suppression check, search, trigger predicate, level and
\* rendering, dedup check-and-touch, notifier fan-out, history insert,
\* writeback index call, in-memory suppression update, lease release: a step
\* has been taken only if the one before it has.
C27_StepsInProtocolOrder ==
    \A e \in Evals :
        /\ ev[e].resp # NoResp => ev[e].lock = "held"
        /\ ev[e].alert # NoAlert => ev[e].resp \in Responses
        /\ ev[e].send # "none" => ev[e].alert # NoAlert
        /\ (ev[e].pending # {} \/ ev[e].invoked # {} \/ ev[e].sendRet # "none")
               => /\ ev[e].send = "true"
                  /\ ~ev[e].insErr => DedupeKey(ev[e].alert) \in DOMAIN dedupe
        /\ ev[e].saved # "none" => ev[e].sendRet # "none"
        /\ WritebackCalled(e) => ev[e].saved # "none"
        /\ StatusUpdated(e) => WritebackCalled(e)
        /\ ev[e].released # "" => (ev[e].send = "true" => StatusUpdated(e))

\* the status has been updated by an evaluation that has not made its
\* writeback call yet
C27_Witness ==
    \E e \in Evals :
        /\ ev[e].pc = "record" /\ ev[e].saved = "ok"
        /\ status[ev[e].rep].alertCount = 1
        /\ status[ev[e].rep].lastAlert = ev[e].alert.id[2]
        /\ ev[e].alert.id \notin DOMAIN writeback

\* ---------------------------------------------------------------------------
\* evaluation e begins in this step and its AcquireRuleLock is answered
AcquireAnswered(e) ==
    ev[e].pc = "idle" /\ ev'[e].pc # "idle" /\ ev'[e].lock # "err"

\* C28: AcquireRuleLock(rule, h, ttl) returns true, and sets holder = h and
\* acquired_at = now, iff the lease row has acquired_at NULL, or
\* acquired_at + ttl_seconds <= now, or holder = h; otherwise it returns false
\* and leaves the row unchanged.
C28_AcquireIffFreeExpiredOrOwn ==
    [][\A e \in Evals :
          AcquireAnswered(e) =>
              LET h       == getInstanceID(ev'[e].rep)
                  free    == ~lockRow.exists \/ lockRow.locked_at = NullTime
                  expired == /\ lockRow.exists /\ lockRow.locked_at # NullTime
                             /\ lockRow.locked_at.sec + LeaseTTL <= now
                  own     == lockRow.exists /\ lockRow.locked_by = h
              IN  IF free \/ expired \/ own
                  THEN /\ ev'[e].lock = "held"
                       /\ lockRow'.locked_by = h /\ lockRow'.locked_at.sec = now
                  ELSE /\ ev'[e].lock = "denied"
                       /\ lockRow' = lockRow]_vars

\* a replica has been denied the lease that another replica took exactly
\* ttl seconds before
C28_Witness ==
    \E e \in Evals :
        /\ ev[e].lock = "denied" /\ ev[e].attemptAt = now
        /\ lockRow.locked_by # getInstanceID(ev[e].rep)
        /\ lockRow.locked_by # ""
        /\ lockRow.locked_at.sec + LeaseTTL = now

\* ---------------------------------------------------------------------------
\* evaluation e gives up, in this step, the lease it holds
ReleasesLease(e) ==
    /\ ev[e].pc = "release" /\ ev'[e].pc = "done"
    /\ lockRow.exists /\ lockRow.locked_by = getInstanceID(ev[e].rep)
    /\ lockRow' # lockRow

\* C29: after a release the holder is cleared and acquired_at is backdated
\* past the TTL, so the next AcquireRuleLock by any replica succeeds
\* immediately, in SQLite as in MySQL.
C29_ReleasedLeaseIsFree ==
    [][\A e \in Evals :
          ReleasesLease(e) =>
              /\ lockRow'.locked_by = ""
              /\ lockRow'.locked_at.sec + LeaseTTL <= now
              /\ \A h \in Rep :
                     AcquireRuleLock(dbType, lockRow', h, now).locked_by = h]_vars

\* a lease has just been released and is still refused to a replica that
\* asks for it in the same second
C29_Witness ==
    /\ lockRow.exists /\ lockRow.locked_by = ""
    /\ lockRow.locked_at = [sec |-> now - 1, sfx |-> 0]
    /\ \E f \in Evals : ev[f].pc = "done" /\ ev[f].released # ""
    /\ \E h \in Rep : AcquireRuleLock(dbType, lockRow, h, now) = lockRow

\* ---------------------------------------------------------------------------
\* C30: the first ShouldSendAndTouch for a key with no row returns true; a
\* call made when at least ttl seconds have passed since the key's last_sent
\* returns true; a call made when less than ttl seconds have passed returns
\* false; ttl <= 0 is treated as 120.
C30_DedupeWithinTTL ==
    (probe.phase = "dedupe" /\ probe.last.res \in {"true", "false"}) =>
        LET c   == probe.last
            ttl == IF probe.ttl <= 0 THEN DefaultDedupeTTL ELSE probe.ttl
            lastSent == IF c.hadRow THEN c.before ELSE c.prevTrue
        IN  /\ (~c.hadRow /\ c.prevTrue = ZeroTime) => c.res = "true"
            /\ (lastSent # ZeroTime /\ c.at - lastSent >= ttl) => c.res = "true"
            /\ (lastSent # ZeroTime /\ c.at - lastSent < ttl) => c.res = "false"

\* a key has been sent and asked for again before its ttl has passed
C30_Witness ==
    /\ probe.phase = "dedupe" /\ probe.last.res \in {"true", "false"}
    /\ probe.last.prevTrue # ZeroTime
    /\ probe.last.at - probe.last.prevTrue < EffectiveTTL(probe.ttl)

\* ---------------------------------------------------------------------------
\* this step is one answered call of ShouldSendAndTouch
DedupeAnswered ==
    /\ probe.phase = "dedupe" /\ probe'.calls = probe.calls + 1
    /\ probe'.last.res \in {"true", "false"}

\* C31: a ShouldSendAndTouch call that returns false leaves last_sent of the
\* key unchanged, and a call that returns true sets last_sent of the key to
\* the time of the call.
C31_TouchOnlyOnSend ==
    [][DedupeAnswered =>
          LET c == probe'.last IN
          /\ (c.res = "false" /\ c.key \in DOMAIN dedupe) =>
                 /\ c.key \in DOMAIN dedupe'
                 /\ dedupe'[c.key] = dedupe[c.key]
          /\ c.res = "true" =>
                 /\ c.key \in DOMAIN dedupe'
                 /\ dedupe'[c.key] = now]_vars

\* a call has returned true and the key has no last_sent
C31_Witness ==
    /\ probe.phase = "dedupe" /\ probe.last.res = "true"
    /\ probe.last.at = now
    /\ probe.last.key \notin DOMAIN dedupe

\* ---------------------------------------------------------------------------
\* the template-selected body of a rendered message: the message itself, or
\* the part under the custom text
BodyOf(msg) == IF Len(msg) = 2 THEN msg[2] ELSE msg

\* C32: the template is picked by the first match in the order "events",
\* "logging" (the system-component variant iff the rule name contains the
\* system-component token), "auditing", else the default template, and the
\* selection is the same with and without custom text.
C32_TemplateByFirstMatch ==
    probe.phase \in {"once", "twice"} =>
        BodyOf(probe.first)[1] =
            IF "events" \in rule.index THEN "events"
            ELSE IF "logging" \in rule.index
            THEN IF "zh_syscomponent" \in rule.name
                 THEN "logging_syscomponent" ELSE "logging"
            ELSE IF "auditing" \in rule.index THEN "auditing"
            ELSE "default"

\* a rule with custom text, named as a system component, whose index pattern
\* contains both "events" and "logging", has been rendered with the events
\* template, and one on a "logging" index with the system-component variant
C32_Witness ==
    /\ probe.phase = "once"
    /\ rule.alert_text # "" /\ "zh_syscomponent" \in rule.name
    /\ \/ /\ {"events", "logging"} \subseteq rule.index
          /\ BodyOf(probe.first)[1] = "events"
       \/ /\ rule.index = {"logging"}
          /\ BodyOf(probe.first)[1] = "logging_syscomponent"

\* ---------------------------------------------------------------------------
\* the value at a dot path of the first hit's _source, read off the document;
\* the empty string when there are no hits or the path leads nowhere
ValueAt(resp, path) ==
    IF resp.hits = 0 THEN ""
    ELSE CASE path = <<"host">>              -> "db-0"
           [] path = <<"count">>             -> "3"
           [] path = <<"kubernetes">>        -> "{pod:p1}"
           [] path = <<"kubernetes", "pod">> -> "p1"
           [] OTHER                          -> ""

NotBlank(path) == path # << >>

\* a rendered message as the pair of its custom part and its body; a message
\* that is only a body has a custom part with nothing in it
CustomAndBody(msg) ==
    IF Len(msg) = 2 THEN msg
    ELSE <<[text |-> << >>, listed |-> FALSE, fields |-> << >>], msg>>

\* C33: for a rule with custom text the message is the custom text with each
\* placeholder replaced by the value at its path in the first hit (the empty
\* string when a segment is missing or there are no hits), then a data-fields
\* list with one entry per non-blank alert_text_args path, present only when
\* the rule has alert_text_args, then the template-selected body.
C33_CustomTextFieldsBody ==
    (probe.phase \in {"once", "twice"} /\ rule.alert_text # "") =>
        LET toks     == TextTokens(rule.alert_text)
            text     == Pieces([i \in 1..Len(toks) |->
                                  IF toks[i].ph THEN ValueAt(probe.resp, toks[i].path)
                                  ELSE toks[i].lit])
            paths    == SelectSeq(rule.alert_text_args, NotBlank)
            fields   == [i \in 1..Len(paths) |->
                            <<paths[i], ValueAt(probe.resp, paths[i])>>]
            rendered == CustomAndBody(probe.first)
        IN  /\ rendered[1].text = text
            /\ rendered[1].listed = (Len(rule.alert_text_args) > 0)
            /\ rendered[1].fields = fields
            /\ rendered[2] = TemplateBody(rule, probe.resp, probe.at)

\* a text with a placeholder and alert_text_args with a blank path among them
\* has been rendered from a response with hits over the logging body
C33_Witness ==
    /\ probe.phase = "once" /\ probe.resp.hits > 0
    /\ rule.alert_text = "Host ${host} failed"
    /\ Len(rule.alert_text_args) = 3
    /\ rule.index = {"logging"}
    /\ Len(probe.first) = 2
    /\ probe.first[1].text = <<"Host ", "db-0", " failed">>
    /\ Len(probe.first[1].fields) = 2
    /\ probe.first[2][1] = "logging"

\* ---------------------------------------------------------------------------
\* C34: the trigger query built at time now has a bool.must list whose first
\* element is the range filter on @timestamp from now - timeframe to now,
\* followed by the rule's query fragment iff the fragment is non-empty, with
\* size 100 and sort by @timestamp descending, whatever bufferTime is.
C34_TriggerQueryShape ==
    (probe.phase = "query" /\ probe.built) =>
        LET q == probe.query IN
        /\ Len(q.must) >= 1
        /\ q.must[1] = [range |-> "@timestamp", gte |-> probe.at - rule.timeframe,
                        lte |-> probe.at]
        /\ IF rule.query.clauses # {}
           THEN Len(q.must) = 2 /\ q.must[2] = rule.query
           ELSE Len(q.must) = 1
        /\ q.size = 100
        /\ q.sort = <<"@timestamp", "desc">>

\* the query of a rule declared with an empty query map has been built
C34_Witness ==
    /\ probe.phase = "query" /\ probe.built
    /\ ~rule.query.nil /\ rule.query.clauses = {}
    /\ Len(probe.query.must) = 2

\* ---------------------------------------------------------------------------
\* the deadline of evaluation e has not passed
WithinDeadline(e) == now <= ev[e].attemptAt + EvalDeadline

\* C35: the deadline of an evaluation, 30 s from its start, bounds the search
\* call and the writeback index call: after the deadline no search returns a
\* response, and no writeback call is started or completes.
C35_DeadlineBoundsSearchAndWriteback ==
    [][\A e \in Evals :
          /\ (ev[e].pc = "search" /\ ev'[e].resp \in Responses) => WithinDeadline(e)
          /\ (ev[e].pc = "save" /\ ev'[e].pc = "record") => WithinDeadline(e)
          /\ (ev[e].pc = "record" /\ writeback' # writeback) => WithinDeadline(e)]_vars

\* a writeback call is running that began after the deadline of its
\* evaluation
C35_Witness ==
    \E e \in Evals :
        /\ ev[e].pc = "record"
        /\ ev[e].recordAt > ev[e].attemptAt + EvalDeadline
        /\ now <= ev[e].recordAt + WritebackTimeout

\* ---------------------------------------------------------------------------
\* goroutine e is at a write of the alertStatus entry
WritesStatus(e) == probe.at[e] \in {"clear", "update"}

\* goroutine e is at a read or a write of the alertStatus entry
UsesStatus(e) == probe.at[e] \in {"read", "clear", "update"}

\* C36: every write to an alertStatus entry, the clearing of suppressed in
\* the suppression check included, is made while holding the status lock in
\* write mode, so no write runs concurrently with another read or write of
\* the entry.
C36_StatusWritesAreExclusive ==
    probe.phase = "mutex" =>
        \A e \in Evals :
            WritesStatus(e) =>
                /\ probe.writer = e /\ probe.readers = {}
                /\ \A f \in Evals \ {e} : ~UsesStatus(f)

\* one goroutine is about to clear suppressed while another, holding the
\* lock for reading as well, is reading or clearing the same entry
C36_Witness ==
    /\ probe.phase = "mutex"
    /\ \E e \in Evals, f \in Evals :
          /\ e # f /\ probe.at[e] = "clear" /\ UsesStatus(f)
          /\ {e, f} \subseteq probe.readers /\ probe.writer = 0

\* ---------------------------------------------------------------------------
\* evaluation e calls ReleaseRuleLock in this step, the store answers, and
\* its replica is not the holder of the lease
ReleasesAsNonHolder(e) ==
    /\ ev[e].pc = "release" /\ ev'[e].pc = "done"
    /\ lockRow.exists /\ lockRow.locked_by # getInstanceID(ev[e].rep)

\* C37: ReleaseRuleLock(rule, h) called by an instance that is not the
\* current holder changes nothing: holder and acquired_at keep their values
\* and the lease of the new holder stays in force.
C37_ReleaseByNonHolderIsNoOp ==
    [][\A e \in Evals : ReleasesAsNonHolder(e) => lockRow' = lockRow]_vars

\* an evaluation whose lease ran out was still running when the other
\* replica took the lease over, and has ended since; the lease still names
\* the other replica, whose evaluation goes on
C37_Witness ==
    \E e \in Evals, f \in Evals :
        /\ ev[e].rep # ev[f].rep
        /\ ev[e].lock = "held" /\ ev[e].pc = "done" /\ ev[e].released # ""
        /\ ev[f].lock = "held" /\ ev[f].pc \notin {"idle", "done", "killed"}
        /\ e \notin ev[f].pred
        /\ lockRow.locked_by = getInstanceID(ev[f].rep)
        /\ lockRow.locked_at.sec = ev[f].attemptAt

\* ---------------------------------------------------------------------------
\* evaluation e got the lease and has not ended
PastAcquisition(e) ==
    ev[e].lock = "held" /\ ev[e].pc \notin {"idle", "done", "killed"}

\* C38: within one replica at most one evaluation of the rule is in progress:
\* an evaluation started by a later tick while an earlier one of the same
\* replica is still running does not get past lease acquisition, and the
\* lease is not released while another evaluation of that replica is running.
C38_OneEvaluationPerReplica ==
    /\ [](\A e \in Evals, f \in Evals :
             (e # f /\ ev[e].rep = ev[f].rep) =>
                 ~(PastAcquisition(e) /\ PastAcquisition(f)))
    /\ [][\A e \in Evals, f \in Evals :
             (/\ e # f /\ ev[e].rep = ev[f].rep
              /\ ev[e].pc = "release" /\ ev'[e].pc = "done"
              /\ PastAcquisition(f))
             => lockRow' = lockRow]_vars

\* a replica runs two evaluations of the rule at once, both past lease
\* acquisition: the earlier one is still at its history insert when the
\* later one, started a tick after it, is at its search
C38_Witness ==
    \E e \in Evals, f \in Evals :
        /\ e # f /\ ev[e].rep = ev[f].rep
        /\ PastAcquisition(e) /\ PastAcquisition(f)
        /\ ev[e].pc = "save" /\ ev[f].pc = "search"
        /\ ev[f].attemptAt >= ev[e].attemptAt + RunInterval

\* ---------------------------------------------------------------------------
\* the dedup check has let the alert of evaluation e through
PassedDedup(e) == ev[e].alert # NoAlert /\ ev[e].send = "true"

\* C39: any two distinct alerts emitted by the fleet have distinct ids, so no
\* two alert_history rows of the engine share an alert_id and no writeback
\* document of one alert overwrites that of another.
C39_AlertIdsAreDistinct ==
    /\ [](\A e \in Evals, f \in Evals :
             (e # f /\ PassedDedup(e) /\ PassedDedup(f)) => ev[e].alert.id # ev[f].alert.id)
    /\ [](\A h1 \in history, h2 \in history :
             (h1.src = "engine" /\ h2.src = "engine" /\ h1.alert_id = h2.alert_id)
                 => h1 = h2)
    /\ [][\A e \in Evals :
             (ev[e].pc = "record" /\ writeback' # writeback)
                 => ev[e].alert.id \notin DOMAIN writeback]_vars

\* two alert_history rows written by two evaluations carry the same alert_id
\* and the writeback index holds one document for the two
C39_Witness ==
    /\ \E h1 \in history, h2 \in history :
          /\ h1.src = "engine" /\ h2.src = "engine"
          /\ h1.eval # h2.eval /\ h1.alert_id = h2.alert_id
    /\ \A e \in Evals : ev[e].pc = "done" /\ PassedDedup(e)
    /\ Cardinality(DOMAIN writeback) = 1

\* ---------------------------------------------------------------------------
\* the runRule goroutines of replica r that have started and not returned
Running(r) ==
    {e \in Evals : ev[e].rep = r /\ ev[e].pc \notin {"idle", "done", "killed"}}

\* C40: at every instant the number of rule evaluations running concurrently
\* on one replica is at most the configured maxRunningRules.
C40_AtMostMaxRunningRules ==
    \A r \in replicas : Cardinality(Running(r)) <= cfg.max_running_rules

\* a replica configured with max_running_rules = 1 runs two evaluations: one
\* still at its history insert, one started by the next tick
C40_Witness ==
    /\ cfg.max_running_rules = 1
    /\ Cardinality(Running("A")) = 2
    /\ \E e \in Running("A") : ev[e].pc = "save"

====
